---- MODULE Spec2Model ----
(***************************************************************************)
(* The summary-table refresh of crowdbiz_graph: refresh_network_status,    *)
(* refresh_organization_summary and main of refresh_summary_tables.py,     *)
(* run against a source store (person, organization, role) and the two     *)
(* derived tables network_status and organization_summary; with them the   *)
(* other entry points of the refresh (`run.py refresh`,                    *)
(* EnhancedDatabaseManager.refresh_summary_tables), the batch writer of    *)
(* create_job_title_department_table, and the department classifiers      *)
(* classify_job_title and categorize_role.                                 *)
(*                                                                         *)
(* A table is the set of its rows.  A person or organization row is        *)
(* represented by its id: every identity field the refresh copies          *)
(* (full_name, name, org_type, sport, industry ...) is a function of that  *)
(* row, so the id stands for all of them.  A query without ORDER BY        *)
(* returns its rows in an order the store chooses; every fetch below       *)
(* draws that order afresh.                                                *)
(***************************************************************************)
EXTENDS Integers, Sequences, FiniteSets, TLC

\* Largest number of rows of the role table.
MaxRoles == 3

PersonIds == {"A", "B"}
OrgIds == {"X", "Y"}
PersonSeq == <<"A", "B">>
OrgSeq == <<"X", "Y">>

\* None / SQL NULL.
NULL == "null"

\* The sentinel of the delete filters, .neq(col, '00000000-...').
NilUuid == "00000000-0000-0000-0000-000000000000"

\* batch_size of the two insert loops.
ns_batch_size == 200
os_batch_size == 100

VARIABLES
    client,                  \* DatabaseManager.client: "ok" or NULL
    person,                  \* source store: ids of the person rows
    organization,            \* source store: ids of the organization rows
    role,                    \* source store: the role rows
    network_status,          \* derived table
    organization_summary,    \* derived table
    pc,                      \* where the running command is
    roles_data,              \* refresh_network_status: the fetched current roles
    network_status_records,  \* refresh_network_status: the computed records
    summary_records,         \* refresh_organization_summary: the computed records
    i,                       \* offset of the insert loop
    network_success,         \* value refresh_network_status returned
    org_success,             \* value refresh_organization_summary returned
    report,                  \* what main printed
    prev,                    \* history: the tables and the role table when the running
                             \* command began, and whether the command before it succeeded
    job_title_mappings,      \* create_job_title_department_table: the computed mappings
    job_title_departments,   \* table written by create_job_title_department_table
    mapping_success,         \* value create_job_title_department_table returned
    results,                 \* value EnhancedDatabaseManager.refresh_summary_tables returned
    rpc_calls,               \* history: the rpc calls that method has issued
    run_pc,                  \* where `run.py refresh` is
    run_output,              \* the last line `run.py refresh` printed
    job_title,               \* argument of the classifier call
    existing_dept,           \* second argument of categorize_role
    department,              \* value the classifier returned
    keyword_tests,           \* history: the `keyword in ...` tests that call made on the title
    other,                   \* the locals of a second refresh process, the one not scheduled
    enriched_people,         \* value get_enriched_people_data returned
    retry                    \* retry_database_operation: its arguments, locals and outcome

vars == <<client, person, organization, role, network_status, organization_summary,
          pc, roles_data, network_status_records, summary_records, i,
          network_success, org_success, report, prev,
          job_title_mappings, job_title_departments, mapping_success,
          results, rpc_calls, run_pc, run_output,
          job_title, existing_dept, department, keyword_tests,
          other, enriched_people, retry>>

store == <<client, person, organization, role>>

\* What the two refresh functions and main never touch.
aux == <<job_title_mappings, job_title_departments, mapping_success,
         results, rpc_calls, run_pc, run_output,
         job_title, existing_dept, department, keyword_tests,
         other, enriched_people, retry>>

\* The locals of a refresh process that has not been started.
IdleProcess ==
    [pc |-> "idle", roles_data |-> <<>>, network_status_records |-> <<>>,
     summary_records |-> <<>>, i |-> 0, network_success |-> FALSE,
     org_success |-> FALSE]

\* retry_database_operation has not been called.
NoRetry ==
    [person_id |-> NULL, max_retries |-> 0, attempt |-> 0, outcomes |-> <<>>,
     result |-> NULL, value |-> <<>>, error |-> NULL]

\* No other command has run.
OtherCommandsInit ==
    /\ job_title_mappings = <<>>
    /\ job_title_departments = {}
    /\ mapping_success = FALSE
    /\ results = NULL
    /\ rpc_calls = <<>>
    /\ run_pc = "idle"
    /\ run_output = "none"
    /\ other = IdleProcess
    /\ enriched_people = <<>>
    /\ retry = NoRetry

\* No classifier call has been made.
AuxInit ==
    /\ OtherCommandsInit
    /\ job_title = NULL
    /\ existing_dept = NULL
    /\ department = NULL
    /\ keyword_tests = 0

----------------------------------------------------------------------------
(* Helpers *)

Min(a, b) == IF a < b THEN a ELSE b

\* The rows of a sequence, as a set.
Range(s) == {s[k] : k \in 1..Len(s)}

\* Every order in which the store may return the rows s.
Orders(s) == {[k \in 1..Len(s) |-> s[f[k]]] : f \in Permutations(1..Len(s))}

\* Every order in which the store may return the rows of the id set S.
RECURSIVE SeqsOf(_)
SeqsOf(S) ==
    IF S = {} THEN {<<>>}
    ELSE UNION {{<<x>> \o t : t \in SeqsOf(S \ {x})} : x \in S}

\* Mutant: records[i:i + batch_size - 1]
Slice_short(records, from, size) ==
    SubSeq(records, from + 1, Min(from + size - 1, Len(records)))

\* records[i:i + batch_size]
Slice(records, from, size) == SubSeq(records, from + 1, Min(from + size, Len(records)))

----------------------------------------------------------------------------
(* The source store *)

NumRoleKinds == Len(PersonSeq) * Len(OrgSeq) * 4

\* The k-th kind of role row: who, where, current or closed, executive or not.
\* The descriptive columns of the row are NULL here; StoreInitDescribed below
\* fills them.
RoleOfIndex(k) ==
    [person_id    |-> PersonSeq[(k \div (Len(OrgSeq) * 4)) + 1],
     org_id       |-> OrgSeq[((k \div 4) % Len(OrgSeq)) + 1],
     is_current   |-> (k \div 2) % 2 = 1,
     is_executive |-> k % 2 = 1,
     job_title    |-> NULL,
     dept         |-> NULL,
     standardized_department |-> NULL,
     start_date   |-> NULL]

\* Every content of the role table with at most MaxRoles rows.  Two role rows
\* may agree in every column; the order of the rows in the table carries no
\* meaning (each fetch reorders them), so one order per content is kept.
RoleTables ==
    UNION {{[j \in 1..n |-> RoleOfIndex(f[j])] :
              f \in {g \in [1..n -> 0..(NumRoleKinds - 1)] :
                        \A a, b \in 1..n : a <= b => g[a] <= g[b]}} :
           n \in 0..MaxRoles}

StoreInit ==
    /\ client \in {"ok", NULL}
    /\ person = PersonIds
    /\ organization \in SUBSET OrgIds
    /\ role \in RoleTables

----------------------------------------------------------------------------
(* The derived tables *)

\* 'last_updated': 'now()' is resolved by the store when a row is inserted.
\* A row's last_updated is kept relative to the refresh call in progress:
\* "this_call" when the row was inserted since the call began, "earlier"
\* otherwise.  Age is the passing of time when a new call begins.
Stamp(rows) == {[r EXCEPT !.last_updated = "this_call"] : r \in rows}
Age(rows) == {[r EXCEPT !.last_updated = "earlier"] : r \in rows}

\* A row without its insertion time.
Data(rows) == {[f \in DOMAIN r \ {"last_updated"} |-> r[f]] : r \in rows}

\* The value of prev when a command begins: the tables and the role table
\* as it finds them, and whether the command before it reported success.
Begin(succeeded) ==
    [valid                |-> succeeded,
     network_status       |-> Age(network_status),
     organization_summary |-> Age(organization_summary),
     role                 |-> role]

\* Rows an earlier refresh left behind, when the role table was different.
StaleOrganizationSummary ==
    {[org_id |-> o, current_employees |-> 1, total_employees |-> 2,
      executive_count |-> 1, last_updated |-> "earlier"] : o \in OrgIds}

\* Mutant: the filter written .eq instead of .neq, which deletes no real row.
DeleteOrganizationSummary_eq(rows) == {r \in rows : ~(r.org_id = NilUuid)}

\* Mutant: the filter compares with the id of a real organization, whose row
\* the delete leaves in the table.
DeleteOrganizationSummary_but_one(rows) == {r \in rows : ~(r.org_id # OrgSeq[1])}

\* .delete().neq('org_id', NilUuid): the rows the filter does not match stay.
DeleteOrganizationSummary(rows) == {r \in rows : ~(r.org_id # NilUuid)}

\* .insert(batch) is one statement: it raises, inserting nothing, when a row
\* of the batch breaks UNIQUE (org_id).
OrgConflict(rows, batch) ==
    \/ \E k \in 1..Len(batch) : \E r \in rows : r.org_id = batch[k].org_id
    \/ \E k, l \in 1..Len(batch) : k # l /\ batch[k].org_id = batch[l].org_id

----------------------------------------------------------------------------
(* refresh_organization_summary *)

\* Mutant: total_employees[org_id] += 1 moved into an else branch, so that
\* only the roles that are not current are counted.
total_employees_else(roles, org_id) ==
    Cardinality({k \in 1..Len(roles) : roles[k].org_id = org_id /\ ~roles[k].is_current})

\* The three defaultdict(int) counters after the loop over roles.
total_employees(roles, org_id) ==
    Cardinality({k \in 1..Len(roles) : roles[k].org_id = org_id})

current_employees(roles, org_id) ==
    Cardinality({k \in 1..Len(roles) : roles[k].org_id = org_id /\ roles[k].is_current})

executive_count(roles, org_id) ==
    Cardinality({k \in 1..Len(roles) :
                    /\ roles[k].org_id = org_id
                    /\ roles[k].is_current
                    /\ roles[k].is_executive})

\* Mutant: the records built from the keys of the counters that are
\* organizations, so that an organization without roles gets none.
SummaryRecords_counted(orgs, roles) ==
    LET counted == SelectSeq(orgs, LAMBDA o : \E k \in 1..Len(roles) : roles[k].org_id = o)
    IN  [k \in 1..Len(counted) |->
            [org_id            |-> counted[k],
             current_employees |-> current_employees(roles, counted[k]),
             total_employees   |-> total_employees(roles, counted[k]),
             executive_count   |-> executive_count(roles, counted[k]),
             last_updated      |-> "this_call"]]

\* Mutant: a record for every org_id seen, in org_map or in a role.
SummaryRecords_seen(orgs, roles) ==
    LET unknown == {roles[k].org_id : k \in 1..Len(roles)} \ Range(orgs)
        keys    == orgs \o (CHOOSE t \in SeqsOf(unknown) : TRUE)
    IN  [k \in 1..Len(keys) |->
            [org_id            |-> keys[k],
             current_employees |-> current_employees(roles, keys[k]),
             total_employees   |-> total_employees(roles, keys[k]),
             executive_count   |-> executive_count(roles, keys[k]),
             last_updated      |-> "this_call"]]

\* summary_records: one record per key of org_map, in the order fetched.
\* org_id stands for the copied name, org_type, sport, industry, is_active,
\* parent_org_id and the parent_org_name looked up from it, all of them read
\* from the organization rows alone.
SummaryRecords(orgs, roles) ==
    [k \in 1..Len(orgs) |->
        [org_id            |-> orgs[k],
         current_employees |-> current_employees(roles, orgs[k]),
         total_employees   |-> total_employees(roles, orgs[k]),
         executive_count   |-> executive_count(roles, orgs[k]),
         last_updated      |-> "this_call"]]

\* return: the value goes to the caller and the locals go out of scope.
OsReturn(value) ==
    /\ org_success' = value
    /\ pc' = "os_done"
    /\ summary_records' = <<>>
    /\ i' = 0

\* A direct call of refresh_organization_summary().
CallOrganizationSummary ==
    /\ pc \in {"idle", "os_done"}
    /\ pc' = "os_connect"
    /\ network_status' = Age(network_status)
    /\ organization_summary' = Age(organization_summary)
    /\ prev' = Begin(pc = "os_done" /\ org_success)
    /\ UNCHANGED <<store, aux, roles_data, network_status_records, summary_records, i,
                   network_success, org_success, report>>

\* if not db.is_connected(): return False
OsConnect ==
    /\ pc = "os_connect"
    /\ IF client = NULL
       THEN OsReturn(FALSE)
       ELSE pc' = "os_delete" /\ UNCHANGED <<org_success, summary_records, i>>
    /\ UNCHANGED <<store, aux, network_status, organization_summary, roles_data,
                   network_status_records, network_success, report, prev>>

\* 1. Clear existing data; an exception of the store ends the call in the
\* except clause, which returns False.
OsDelete ==
    /\ pc = "os_delete"
    /\ \/ /\ organization_summary' = DeleteOrganizationSummary(organization_summary)
          /\ pc' = "os_fetch"
          /\ UNCHANGED <<org_success, summary_records, i>>
       \/ /\ OsReturn(FALSE)
          /\ UNCHANGED organization_summary
    /\ UNCHANGED <<store, aux, network_status, roles_data, network_status_records,
                   network_success, report, prev>>

\* 2.-4. Fetch organizations and roles, count, build summary_records
OsFetch ==
    /\ pc = "os_fetch"
    /\ \/ \E orgs \in SeqsOf(organization), roles \in Orders(role) :
            IF orgs = <<>>
            THEN OsReturn(TRUE)
            ELSE /\ summary_records' = SummaryRecords(orgs, roles)
                 /\ i' = 0
                 /\ pc' = "os_insert"
                 /\ UNCHANGED org_success
       \/ OsReturn(FALSE)
    /\ UNCHANGED <<store, aux, network_status, organization_summary, roles_data,
                   network_status_records, network_success, report, prev>>

\* 5. Insert new records in batches
OsInsert ==
    /\ pc = "os_insert"
    /\ LET batch == Slice(summary_records, i, os_batch_size) IN
       \/ /\ ~OrgConflict(organization_summary, batch)
          /\ organization_summary' = organization_summary \cup Stamp(Range(batch))
          /\ IF i + os_batch_size < Len(summary_records)
             THEN i' = i + os_batch_size /\ UNCHANGED <<pc, org_success, summary_records>>
             ELSE OsReturn(TRUE)
       \/ /\ OsReturn(FALSE)
          /\ UNCHANGED organization_summary
    /\ UNCHANGED <<store, aux, network_status, roles_data, network_status_records,
                   network_success, report, prev>>

refresh_organization_summary == OsConnect \/ OsDelete \/ OsFetch \/ OsInsert

----------------------------------------------------------------------------
(* refresh_network_status *)

\* Rows an earlier refresh left behind, when the role table was different.
StaleNetworkStatus ==
    {[person_id |-> p, current_organization |-> "X", is_executive |-> FALSE,
      current_job_title |-> NULL, current_department |-> NULL,
      current_standardized_department |-> NULL, role_start_date |-> NULL,
      current_roles_count |-> 1, total_roles_count |-> 1,
      last_updated |-> "earlier"] : p \in PersonIds}

\* network_status.id is filled by DEFAULT uuid_generate_v4().
GeneratedId == "uuid_generate_v4()"

\* Mutant: the delete of step 1 matches no row.
DeleteNetworkStatus_none(rows) == rows

\* .delete().neq('id', NilUuid): the rows the filter does not match stay.
DeleteNetworkStatus(rows) == {r \in rows : ~(GeneratedId # NilUuid)}

\* Mutant: network_status without CONSTRAINT uniq_network_status_person, so
\* that an insert is never rejected for a row the table holds already.
PersonConflict_never(rows, batch) == FALSE

\* .insert(batch) raises, inserting nothing, when a row of the batch breaks
\* UNIQUE (person_id).
PersonConflict(rows, batch) ==
    \/ \E k \in 1..Len(batch) : \E r \in rows : r.person_id = batch[k].person_id
    \/ \E k, l \in 1..Len(batch) : k # l /\ batch[k].person_id = batch[l].person_id

\* One row of role.select('..., is_executive, person:person_id(*), organization(*)'):
\* an embedded row is None when the referenced row does not exist.
Embed(r) ==
    [job_title    |-> r.job_title,
     dept         |-> r.dept,
     standardized_department |-> r.standardized_department,
     start_date   |-> r.start_date,
     is_executive |-> r.is_executive,
     person       |-> IF r.person_id \in person THEN r.person_id ELSE NULL,
     organization |-> IF r.org_id \in organization THEN r.org_id ELSE NULL]

\* The rows of that select with .eq('is_current', True), in table order.
CurrentRoles ==
    LET cur == SelectSeq(role, LAMBDA r : r.is_current)
    IN  [k \in 1..Len(cur) |-> Embed(cur[k])]

\* Mutant: the total counted over the current roles only.
total_roles_counts_current(all_roles, person_id) ==
    Cardinality({k \in 1..Len(all_roles) :
                    all_roles[k].person_id = person_id /\ all_roles[k].is_current})

\* Counter(person_ids)
total_roles_counts(all_roles, person_id) ==
    Cardinality({k \in 1..Len(all_roles) : all_roles[k].person_id = person_id})

\* Mutant: one key for every role, as if person_roles were a list of pairs.
PersonKeys_every_role(rd, seen) ==
    LET kept == SelectSeq(rd, LAMBDA r : r.person # NULL)
    IN  [k \in 1..Len(kept) |-> kept[k].person]

\* The keys of the dict person_roles, in insertion order.
RECURSIVE PersonKeys(_, _)
PersonKeys(rd, seen) ==
    IF rd = <<>> THEN <<>>
    ELSE LET p == Head(rd).person IN
         IF p = NULL \/ p \in seen
         THEN PersonKeys(Tail(rd), seen)
         ELSE <<p>> \o PersonKeys(Tail(rd), seen \cup {p})

\* Mutant: person_roles[person_id] = [role] instead of append, which keeps
\* the last role of the person only.
person_roles_overwrite(rd, person_id) ==
    LET all == SelectSeq(rd, LAMBDA r : r.person = person_id)
    IN  IF all = <<>> THEN <<>> ELSE <<all[Len(all)]>>

\* person_roles[person_id]
person_roles(rd, person_id) == SelectSeq(rd, LAMBDA r : r.person = person_id)

\* roles[0]
primary_role(roles) == roles[1]

\* Mutant: is_executive set when any current role of the person is executive.
NetworkStatusRecord_any_executive(rd, all_roles, person_id) ==
    LET roles   == person_roles(rd, person_id)
        primary == primary_role(roles)
    IN  [person_id            |-> primary.person,
         current_job_title    |-> primary.job_title,
         current_department   |-> primary.dept,
         current_standardized_department |-> primary.standardized_department,
         current_organization |-> primary.organization,
         is_executive         |-> \E k \in 1..Len(roles) : roles[k].is_executive,
         role_start_date      |-> primary.start_date,
         current_roles_count  |-> Len(roles),
         total_roles_count    |-> total_roles_counts(all_roles, person_id),
         last_updated         |-> "this_call"]

\* The record of one person.  person_id stands for the copied fields of the
\* person row and current_organization for those of the organization row.
NetworkStatusRecord(rd, all_roles, person_id) ==
    LET roles   == person_roles(rd, person_id)
        primary == primary_role(roles)
    IN  [person_id            |-> primary.person,
         current_job_title    |-> primary.job_title,
         current_department   |-> primary.dept,
         current_standardized_department |-> primary.standardized_department,
         current_organization |-> primary.organization,
         is_executive         |-> primary.is_executive,
         role_start_date      |-> primary.start_date,
         current_roles_count  |-> Len(roles),
         total_roles_count    |-> total_roles_counts(all_roles, person_id),
         last_updated         |-> "this_call"]

\* Mutant: without `if not person or not organization: continue`, a record is
\* built from a primary role whose organization is None.
NetworkStatusRecords_unguarded(rd, all_roles) ==
    LET keys == PersonKeys(rd, {})
    IN  [k \in 1..Len(keys) |-> NetworkStatusRecord(rd, all_roles, keys[k])]

\* network_status_records
NetworkStatusRecords(rd, all_roles) ==
    LET keys == PersonKeys(rd, {})
        kept == SelectSeq(keys,
                    LAMBDA p : primary_role(person_roles(rd, p)).organization # NULL)
    IN  [k \in 1..Len(kept) |-> NetworkStatusRecord(rd, all_roles, kept[k])]

\* return: the value goes to the caller and the locals go out of scope.
NsReturn(value) ==
    /\ network_success' = value
    /\ pc' = "ns_done"
    /\ roles_data' = <<>>
    /\ network_status_records' = <<>>
    /\ i' = 0

\* A direct call of refresh_network_status().
CallNetworkStatus ==
    /\ pc \in {"idle", "ns_done"}
    /\ pc' = "ns_connect"
    /\ network_status' = Age(network_status)
    /\ organization_summary' = Age(organization_summary)
    /\ prev' = Begin(pc = "ns_done" /\ network_success)
    /\ UNCHANGED <<store, aux, roles_data, network_status_records, summary_records, i,
                   network_success, org_success, report>>

\* Mutant: the is_connected guard placed after the delete of step 1.
NsConnect_after_delete ==
    /\ pc = "ns_connect"
    /\ network_status' = DeleteNetworkStatus(network_status)
    /\ IF client = NULL
       THEN NsReturn(FALSE)
       ELSE /\ pc' = "ns_fetch"
            /\ UNCHANGED <<network_success, roles_data, network_status_records, i>>
    /\ UNCHANGED <<store, aux, organization_summary, summary_records,
                   org_success, report, prev>>

\* if not db.is_connected(): return False
NsConnect ==
    /\ pc = "ns_connect"
    /\ IF client = NULL
       THEN NsReturn(FALSE)
       ELSE /\ pc' = "ns_delete"
            /\ UNCHANGED <<network_success, roles_data, network_status_records, i>>
    /\ UNCHANGED <<store, aux, network_status, organization_summary, summary_records,
                   org_success, report, prev>>

\* 1. Clear existing data; an exception of the store ends the call in the
\* except clause, which returns False.
NsDelete ==
    /\ pc = "ns_delete"
    /\ \/ /\ network_status' = DeleteNetworkStatus(network_status)
          /\ pc' = "ns_fetch"
          /\ UNCHANGED <<network_success, roles_data, network_status_records, i>>
       \/ /\ NsReturn(FALSE)
          /\ UNCHANGED network_status
    /\ UNCHANGED <<store, aux, organization_summary, summary_records, org_success,
                   report, prev>>

\* 2. Fetch the current roles with person and organization
NsFetch ==
    /\ pc = "ns_fetch"
    /\ \/ \E rd \in Orders(CurrentRoles) :
            IF rd = <<>>
            THEN NsReturn(TRUE)
            ELSE /\ roles_data' = rd
                 /\ pc' = "ns_process"
                 /\ UNCHANGED <<network_success, network_status_records, i>>
       \/ NsReturn(FALSE)
    /\ UNCHANGED <<store, aux, network_status, organization_summary, summary_records,
                   org_success, report, prev>>

\* 3.-4. Fetch the person_id of every role, count, build network_status_records
NsProcess ==
    /\ pc = "ns_process"
    /\ \/ \E all_roles \in Orders(role) :
            LET records == NetworkStatusRecords(roles_data, all_roles) IN
            IF records = <<>>
            THEN NsReturn(TRUE)
            ELSE /\ network_status_records' = records
                 /\ i' = 0
                 /\ pc' = "ns_insert"
                 /\ UNCHANGED <<network_success, roles_data>>
       \/ NsReturn(FALSE)
    /\ UNCHANGED <<store, aux, network_status, organization_summary, summary_records,
                   org_success, report, prev>>

\* 5. Insert new records in batches
NsInsert ==
    /\ pc = "ns_insert"
    /\ LET batch == Slice(network_status_records, i, ns_batch_size) IN
       \/ /\ ~PersonConflict(network_status, batch)
          /\ network_status' = network_status \cup Stamp(Range(batch))
          /\ IF i + ns_batch_size < Len(network_status_records)
             THEN /\ i' = i + ns_batch_size
                  /\ UNCHANGED <<pc, network_success, roles_data, network_status_records>>
             ELSE NsReturn(TRUE)
       \/ /\ NsReturn(FALSE)
          /\ UNCHANGED network_status
    /\ UNCHANGED <<store, aux, organization_summary, summary_records, org_success,
                   report, prev>>

refresh_network_status == NsConnect \/ NsDelete \/ NsFetch \/ NsProcess \/ NsInsert

----------------------------------------------------------------------------
(* main *)

\* network_success = refresh_network_status()
MainStart ==
    /\ pc = "idle"
    /\ pc' = "ns_connect"
    /\ network_success' = FALSE
    /\ org_success' = FALSE
    /\ report' = "none"
    /\ network_status' = Age(network_status)
    /\ organization_summary' = Age(organization_summary)
    /\ prev' = Begin(report = "success")
    /\ UNCHANGED <<store, aux, roles_data, network_status_records, summary_records, i>>

\* Mutant: refresh_organization_summary called only when the first refresh
\* succeeded.
MainCallOrg_if_success ==
    /\ pc = "ns_done"
    /\ pc' = IF network_success THEN "os_connect" ELSE "os_done"
    /\ network_status' = Age(network_status)
    /\ organization_summary' = Age(organization_summary)
    /\ UNCHANGED <<store, aux, roles_data, network_status_records, summary_records, i,
                   network_success, org_success, report, prev>>

\* org_success = refresh_organization_summary()
MainCallOrg ==
    /\ pc = "ns_done"
    /\ pc' = "os_connect"
    /\ network_status' = Age(network_status)
    /\ organization_summary' = Age(organization_summary)
    /\ UNCHANGED <<store, aux, roles_data, network_status_records, summary_records, i,
                   network_success, org_success, report, prev>>

\* if network_success and org_success: print(...) else: print(...)
MainReport ==
    /\ pc = "os_done"
    /\ pc' = "idle"
    /\ report' = IF network_success /\ org_success THEN "success" ELSE "errors"
    /\ UNCHANGED <<store, aux, network_status, organization_summary, roles_data,
                   network_status_records, summary_records, i, network_success,
                   org_success, prev>>

----------------------------------------------------------------------------
(* What the specification says the counts are, stated on the role table *)

RoleRows == 1..Len(role)

\* The role rows of person p that are current.
CurrentRolesOf(p) == {k \in RoleRows : role[k].person_id = p /\ role[k].is_current}

\* The role rows of person p, current or historical.
AllRolesOf(p) == {k \in RoleRows : role[k].person_id = p}

\* The distinct people who ever held a role at organization o.
PeopleEverAt(o) == {role[k].person_id : k \in {j \in RoleRows : role[j].org_id = o}}

\* The distinct people with a current role at organization o.
PeopleCurrentAt(o) ==
    {role[k].person_id : k \in {j \in RoleRows : role[j].org_id = o /\ role[j].is_current}}

\* The distinct people with a current, executive-flagged role at organization o.
ExecutivesAt(o) ==
    {role[k].person_id :
        k \in {j \in RoleRows : /\ role[j].org_id = o
                                /\ role[j].is_current
                                /\ role[j].is_executive}}

\* refresh_network_status has just returned True.
NsSucceeded == pc = "ns_done" /\ network_success

\* refresh_organization_summary has just returned True.
OsSucceeded == pc = "os_done" /\ org_success

----------------------------------------------------------------------------
(* Claims *)

\* C1: when main has run twice in a row with both refreshes succeeding both
\* times and the source store unchanged, network_status and
\* organization_summary hold the same rows with the same field values
\* (last_updated aside) after the second run as after the first, whatever
\* order the store returned the role rows in.
C1_Idempotent ==
    (pc = "os_done" /\ network_success /\ org_success /\ prev.valid)
        => /\ Data(network_status) = Data(prev.network_status)
           /\ Data(organization_summary) = Data(prev.organization_summary)

\* C2: after a successful refresh_organization_summary the table is a
\* function of the source store alone: one row per organization with the
\* counts of the role table, every row inserted by this call, whether the
\* call began on an empty table, on stale rows or on the previous result.
C2_FullReplace ==
    OsSucceeded =>
        organization_summary =
            {[org_id            |-> o,
              current_employees |-> current_employees(role, o),
              total_employees   |-> total_employees(role, o),
              executive_count   |-> executive_count(role, o),
              last_updated      |-> "this_call"] : o \in organization}

\* C2 witness: a successful call that began on the stale rows and replaced
\* them by rows with other counts.
C2_Witness ==
    /\ OsSucceeded
    /\ prev.organization_summary = StaleOrganizationSummary
    /\ organization_summary # {}
    /\ Data(organization_summary) \cap Data(StaleOrganizationSummary) = {}

\* C3: after a successful refresh_network_status, the current_roles_count of
\* the row of a person with at least one current role is the number of role
\* rows of that person with is_current = true.
C3_CurrentRolesCount ==
    NsSucceeded =>
        \A r \in network_status :
            CurrentRolesOf(r.person_id) # {}
                => r.current_roles_count = Cardinality(CurrentRolesOf(r.person_id))

\* C3 witness: a person with two concurrent current roles has a row.
C3_Witness ==
    /\ NsSucceeded
    /\ \E r \in network_status :
          /\ r.current_roles_count = 2
          /\ Cardinality(CurrentRolesOf(r.person_id)) = 2

\* C4: after a successful refresh_network_status, the total_roles_count of
\* every row is the number of role rows of that person, current or closed.
C4_TotalRolesCount ==
    NsSucceeded =>
        \A r \in network_status :
            r.total_roles_count = Cardinality(AllRolesOf(r.person_id))

\* C4 witness: a person with two current roles and one closed role has a row
\* with total_roles_count = 3.
C4_Witness ==
    /\ NsSucceeded
    /\ \E r \in network_status :
          /\ r.current_roles_count = 2
          /\ r.total_roles_count = 3
          /\ Cardinality(AllRolesOf(r.person_id) \ CurrentRolesOf(r.person_id)) = 1

\* C5: after a successful refresh_organization_summary, total_employees of
\* every organization is the number of distinct people who ever held a role
\* there.
C5_TotalEmployeesDistinct ==
    OsSucceeded =>
        \A r \in organization_summary :
            r.total_employees = Cardinality(PeopleEverAt(r.org_id))

\* C6: after a successful refresh_organization_summary, current_employees of
\* every organization is the number of distinct people with a current role
\* there.
C6_CurrentEmployeesDistinct ==
    OsSucceeded =>
        \A r \in organization_summary :
            r.current_employees = Cardinality(PeopleCurrentAt(r.org_id))

\* C7: after a successful refresh_organization_summary, executive_count of
\* every organization is the number of distinct people with a current,
\* executive-flagged role there.
C7_ExecutiveCountDistinct ==
    OsSucceeded =>
        \A r \in organization_summary :
            r.executive_count = Cardinality(ExecutivesAt(r.org_id))

\* C8: in every row of organization_summary, at every moment of a refresh,
\* current_employees <= total_employees.
C8_CurrentAtMostTotal ==
    \A r \in organization_summary : r.current_employees <= r.total_employees

\* C8 witness: a row written by the call with current roles and closed ones.
C8_Witness ==
    /\ OsSucceeded
    /\ \E r \in organization_summary :
          /\ r.last_updated = "this_call"
          /\ 0 < r.current_employees
          /\ r.current_employees < r.total_employees

\* C9: after a successful refresh_organization_summary, an organization
\* without any role row has a row, and its three counts are 0.
C9_ZeroRoleOrganization ==
    OsSucceeded =>
        \A o \in organization :
            (\A k \in RoleRows : role[k].org_id # o)
                => \E r \in organization_summary :
                      /\ r.org_id = o
                      /\ r.total_employees = 0
                      /\ r.current_employees = 0
                      /\ r.executive_count = 0

\* C9 witness: an organization without roles beside one with roles.
C9_Witness ==
    /\ OsSucceeded
    /\ \E o, q \in organization :
          /\ \A k \in RoleRows : role[k].org_id # o
          /\ \E k \in RoleRows : role[k].org_id = q
          /\ \E r \in organization_summary : r.org_id = o /\ r.total_employees = 0

\* C10: after a successful refresh_organization_summary, the table holds
\* exactly one row for each organization of the source store and no row for
\* any other org_id.
C10_OneRowPerOrganization ==
    OsSucceeded =>
        /\ {r.org_id : r \in organization_summary} = organization
        /\ \A r, q \in organization_summary : r.org_id = q.org_id => r = q

\* C10 witness: a role points at an org_id that is no organization, and the
\* table has the row of the organization that exists.
C10_Witness ==
    /\ OsSucceeded
    /\ organization_summary # {}
    /\ \E k \in RoleRows : role[k].org_id \notin organization

----------------------------------------------------------------------------
(* A store with more persons than one insert batch holds *)

\* Largest number of persons of the large store.
MaxPeople == 401

\* The role table of a large store, one of more than MaxRoles rows: person 1
\* holds two current roles, at "X" and at "Y"; every other person of 1..n
\* holds one current role at "X".
LargeRole(n) ==
    [k \in 1..(n + 1) |->
        [person_id    |-> IF k = n + 1 THEN 1 ELSE k,
         org_id       |-> IF k = n + 1 THEN "Y" ELSE "X",
         is_current   |-> TRUE,
         is_executive |-> FALSE,
         job_title    |-> NULL,
         dept         |-> NULL,
         standardized_department |-> NULL,
         start_date   |-> NULL]]

\* network_status_records of the large store, the roles fetched in table order.
LargeRecords(n) ==
    [k \in 1..n |->
        [person_id            |-> k,
         current_job_title    |-> NULL,
         current_department   |-> NULL,
         current_standardized_department |-> NULL,
         current_organization |-> "X",
         is_executive         |-> FALSE,
         role_start_date      |-> NULL,
         current_roles_count  |-> IF k = 1 THEN 2 ELSE 1,
         total_roles_count    |-> IF k = 1 THEN 2 ELSE 1,
         last_updated         |-> "this_call"]]

\* refresh_network_status about to enter its insert loop over the large
\* store: the delete has emptied the table and the records are computed.
InitNsInsertLoop ==
    /\ organization = OrgIds
    /\ \E n \in MaxRoles..MaxPeople :
          /\ person = 1..n
          /\ role = LargeRole(n)
          /\ roles_data = [k \in 1..(n + 1) |-> Embed(LargeRole(n)[k])]
          /\ network_status_records = LargeRecords(n)
    /\ client = "ok"
    /\ network_status = {}
    /\ organization_summary = {}
    /\ pc = "ns_insert"
    /\ i = 0
    /\ summary_records = <<>>
    /\ network_success = FALSE
    /\ org_success = FALSE
    /\ report = "none"
    /\ prev = [valid |-> FALSE, network_status |-> {}, organization_summary |-> {},
               role |-> role]
    /\ AuxInit

----------------------------------------------------------------------------
(* A store with more organizations than one insert batch holds *)

\* Largest number of organizations of the large store.
MaxOrgs == 201

\* refresh_organization_summary about to enter its insert loop over a store
\* of many organizations and no roles: the delete has emptied the table and
\* the records are computed, the organizations fetched in the order 1..n.
InitOsInsertLoop ==
    /\ \E n \in MaxRoles..MaxOrgs :
          /\ organization = 1..n
          /\ summary_records = SummaryRecords([k \in 1..n |-> k], <<>>)
    /\ role = <<>>
    /\ person = PersonIds
    /\ client = "ok"
    /\ network_status = {}
    /\ organization_summary = {}
    /\ pc = "os_insert"
    /\ i = 0
    /\ roles_data = <<>>
    /\ network_status_records = <<>>
    /\ network_success = FALSE
    /\ org_success = FALSE
    /\ report = "none"
    /\ prev = [valid |-> FALSE, network_status |-> {}, organization_summary |-> {},
               role |-> role]
    /\ AuxInit

----------------------------------------------------------------------------
(* create_job_title_department_table: the delete and the insert loop *)

\* Largest number of unique job titles.
MaxTitles == 201

\* batch_size of the insert loop of create_job_title_department_table.
mapping_batch_size == 100

\* The job title '' of the delete filter; the unique titles are 1, 2, ...
BlankTitle == 0

\* job_title_mappings for the unique titles 1..n; the department is the
\* classifier's, which the loop does not read.
JobTitleMappings(n) ==
    [k \in 1..n |->
        [job_title |-> k, standardized_department |-> "Other", created_at |-> "now()"]]

\* Rows an earlier run left in job_title_departments.
StaleMappings ==
    {[job_title |-> MaxTitles + 1, standardized_department |-> "Other",
      created_at |-> "now()"]}

\* .delete().neq('job_title', ''): the rows the filter does not match stay.
DeleteMappings(rows) == {r \in rows : ~(r.job_title # BlankTitle)}

\* return: the value goes to the caller and the locals go out of scope.
MappingReturn(value) ==
    /\ mapping_success' = value
    /\ pc' = "jt_done"
    /\ job_title_mappings' = <<>>
    /\ i' = 0

\* Clear existing data; an exception is logged and the function goes on.
MappingDelete ==
    /\ pc = "jt_delete"
    /\ \/ job_title_departments' = DeleteMappings(job_title_departments)
       \/ UNCHANGED job_title_departments
    /\ IF job_title_mappings = <<>>
       THEN MappingReturn(TRUE)
       ELSE /\ pc' = "jt_insert"
            /\ i' = 0
            /\ UNCHANGED <<mapping_success, job_title_mappings>>
    /\ UNCHANGED <<store, network_status, organization_summary, roles_data,
                   network_status_records, summary_records, network_success,
                   org_success, report, prev, results, rpc_calls, run_pc, run_output,
                   job_title, existing_dept, department, keyword_tests,
                   other, enriched_people, retry>>

\* Mutant: the insert loop without its inner try, so that a failed batch
\* reaches the outer except clause, which returns False.
MappingInsert_abort ==
    /\ pc = "jt_insert"
    /\ LET batch == Slice(job_title_mappings, i, mapping_batch_size) IN
       \/ /\ job_title_departments' = job_title_departments \cup Range(batch)
          /\ IF i + mapping_batch_size < Len(job_title_mappings)
             THEN /\ i' = i + mapping_batch_size
                  /\ UNCHANGED <<pc, mapping_success, job_title_mappings>>
             ELSE MappingReturn(TRUE)
       \/ /\ UNCHANGED job_title_departments
          /\ MappingReturn(FALSE)
    /\ UNCHANGED <<store, network_status, organization_summary, roles_data,
                   network_status_records, summary_records, network_success,
                   org_success, report, prev, results, rpc_calls, run_pc, run_output,
                   job_title, existing_dept, department, keyword_tests,
                   other, enriched_people, retry>>

\* Insert mappings in batches; a failed batch is logged and the loop goes on
\* with the next batch.  After the loop the function returns True.
MappingInsert ==
    /\ pc = "jt_insert"
    /\ LET batch == Slice(job_title_mappings, i, mapping_batch_size) IN
       \/ job_title_departments' = job_title_departments \cup Range(batch)
       \/ UNCHANGED job_title_departments
    /\ IF i + mapping_batch_size < Len(job_title_mappings)
       THEN /\ i' = i + mapping_batch_size
            /\ UNCHANGED <<pc, mapping_success, job_title_mappings>>
       ELSE MappingReturn(TRUE)
    /\ UNCHANGED <<store, network_status, organization_summary, roles_data,
                   network_status_records, summary_records, network_success,
                   org_success, report, prev, results, rpc_calls, run_pc, run_output,
                   job_title, existing_dept, department, keyword_tests,
                   other, enriched_people, retry>>

\* create_job_title_department_table about to clear the table, the mappings
\* of n unique job titles computed.
InitMappingWriter ==
    /\ \E n \in 1..MaxTitles :
          /\ person = 1..n
          /\ role = LargeRole(n)
          /\ job_title_mappings = JobTitleMappings(n)
    /\ job_title_departments \in {{}, StaleMappings}
    /\ client = "ok"
    /\ organization = OrgIds
    /\ network_status = {}
    /\ organization_summary = {}
    /\ pc = "jt_delete"
    /\ i = 0
    /\ roles_data = <<>>
    /\ network_status_records = <<>>
    /\ summary_records = <<>>
    /\ network_success = FALSE
    /\ org_success = FALSE
    /\ report = "none"
    /\ prev = [valid |-> FALSE, network_status |-> {}, organization_summary |-> {},
               role |-> role]
    /\ mapping_success = FALSE
    /\ results = NULL
    /\ rpc_calls = <<>>
    /\ run_pc = "idle"
    /\ run_output = "none"
    /\ other = IdleProcess
    /\ enriched_people = <<>>
    /\ retry = NoRetry
    /\ job_title = NULL
    /\ existing_dept = NULL
    /\ department = NULL
    /\ keyword_tests = 0

----------------------------------------------------------------------------
(* EnhancedDatabaseManager.refresh_summary_tables *)

\* Largest value an rpc returns as its data.
MaxCount == 2

\* What the method leaves alone.  The SQL functions behind the two rpc calls
\* run inside the store; of a call the method sees the returned data or the
\* exception, and it reads neither summary table.
enhanced_unchanged ==
    <<store, network_status, organization_summary, roles_data, network_status_records,
      summary_records, i, network_success, org_success, report, prev,
      job_title_mappings, job_title_departments, mapping_success, run_pc, run_output,
      job_title, existing_dept, department, keyword_tests,
                   other, enriched_people, retry>>

\* One entry of the history rpc_calls.
RpcCall(name, raised, data) == [rpc |-> name, raised |-> raised, data |-> data]

\* except Exception: return {'network_status': 0, 'organization_summary': 0}
EnhancedExcept ==
    /\ results' = [network_status |-> 0, organization_summary |-> 0]
    /\ pc' = "enh_done"

\* results = {}
EnhancedStart ==
    /\ pc \in {"idle", "enh_done"}
    /\ pc' = "enh_network"
    /\ results' = NULL
    /\ rpc_calls' = <<>>
    /\ UNCHANGED enhanced_unchanged

\* network_result = self.client.rpc('refresh_network_status').execute()
\* results['network_status'] = network_result.data if network_result else 0
EnhancedNetwork ==
    /\ pc = "enh_network"
    /\ \/ \E data \in 0..MaxCount :
            /\ client # NULL
            /\ rpc_calls' = Append(rpc_calls, RpcCall("refresh_network_status", FALSE, data))
            /\ results' = [network_status |-> data]
            /\ pc' = "enh_org"
       \/ /\ rpc_calls' = Append(rpc_calls, RpcCall("refresh_network_status", TRUE, 0))
          /\ EnhancedExcept
    /\ UNCHANGED enhanced_unchanged

\* org_result = self.client.rpc('refresh_organization_summary').execute()
\* results['organization_summary'] = org_result.data if org_result else 0
\* return results
EnhancedOrg ==
    /\ pc = "enh_org"
    /\ \/ \E data \in 0..MaxCount :
            /\ client # NULL
            /\ rpc_calls' = Append(rpc_calls, RpcCall("refresh_organization_summary", FALSE, data))
            /\ results' = [network_status       |-> results.network_status,
                           organization_summary |-> data]
            /\ pc' = "enh_done"
       \/ /\ rpc_calls' = Append(rpc_calls, RpcCall("refresh_organization_summary", TRUE, 0))
          /\ EnhancedExcept
    /\ UNCHANGED enhanced_unchanged

----------------------------------------------------------------------------
(* run.py refresh *)

\* print("Refreshing summary tables..."), then the subprocess is started: a
\* new process, which has printed nothing yet.
RunRefresh ==
    /\ run_pc = "idle"
    /\ pc = "idle"
    /\ run_pc' = "subprocess"
    /\ run_output' = "Refreshing summary tables..."
    /\ report' = "none"
    /\ UNCHANGED <<store, network_status, organization_summary, pc, roles_data,
                   network_status_records, summary_records, i, network_success,
                   org_success, prev, job_title_mappings, job_title_departments,
                   mapping_success, results, rpc_calls, job_title, existing_dept,
                   department, keyword_tests, other, enriched_people, retry>>

\* subprocess.run(["python", "refresh_summary_tables.py"]): main begins.
RunMain ==
    /\ run_pc = "subprocess"
    /\ report = "none"
    /\ MainStart

\* subprocess.run has returned, its return code is not read;
\* print("Summary tables refreshed successfully.")
RunPrint ==
    /\ run_pc = "subprocess"
    /\ pc = "idle"
    /\ report # "none"
    /\ run_pc' = "idle"
    /\ run_output' = "Summary tables refreshed successfully."
    /\ UNCHANGED <<store, network_status, organization_summary, pc, roles_data,
                   network_status_records, summary_records, i, network_success,
                   org_success, report, prev, job_title_mappings,
                   job_title_departments, mapping_success, results, rpc_calls,
                   job_title, existing_dept, department, keyword_tests,
                   other, enriched_people, retry>>

----------------------------------------------------------------------------
(* The department classifiers: classify_job_title and categorize_role *)

\* A job title or department is a string; NULL stands for None, and no title
\* below is the word NULL is written with.

\* DEPARTMENT_MAPPING of create_job_title_department_mapping.py, in dict order.
DEPARTMENT_MAPPING ==
    <<[department |-> "Sales & Partnerships",
      keywords |->
          <<"sales", "partnership", "corporate partnership", "sponsor",
            "business development", "account", "client", "revenue", "commercial",
            "corporate sales", "premium sales", "season ticket", "membership",
            "corporate services", "vip", "suite", "hospitality">>],
     [department |-> "Marketing & Communications",
      keywords |->
          <<"marketing", "communications", "content", "social media", "brand",
            "creative", "graphic design", "public relations", "pr",
            "media relations", "digital", "advertising", "promotion",
            "community relations", "fan engagement", "publicity">>],
     [department |-> "Finance & Administration",
      keywords |->
          <<"finance", "accounting", "controller", "cfo", "treasurer", "budget",
            "financial", "hr", "human resources", "legal", "compliance",
            "administration", "admin", "operations manager", "business operations",
            "executive assistant", "office manager">>],
     [department |-> "Stadium Operations & Facilities",
      keywords |->
          <<"stadium", "facilities", "maintenance", "security", "grounds", "field",
            "building", "operations", "event operations", "game day", "facility",
            "groundskeeper", "custodial", "engineering">>],
     [department |-> "Technology & Analytics",
      keywords |->
          <<"technology", "it", "data", "analytics", "digital", "software",
            "systems", "database", "tech", "information", "analyst", "developer",
            "programmer">>],
     [department |-> "Fan Experience & Events",
      keywords |->
          <<"fan experience", "events", "entertainment", "guest services",
            "customer service", "fan services", "game presentation", "promotions",
            "activation", "experience", "community", "youth", "education",
            "outreach">>],
     [department |-> "Ticketing & Operations",
      keywords |->
          <<"ticketing", "box office", "ticket", "seating", "concessions",
            "merchandise", "retail", "food service", "vendor", "procurement",
            "purchasing">>],
     [department |-> "Broadcasting & Media",
      keywords |->
          <<"broadcasting", "media", "production", "video", "audio", "broadcast",
            "television", "radio", "streaming", "content production", "journalism",
            "reporter", "announcer", "producer">>]>>

\* department_mapping of create_department_mapping(), in dict order.
department_mapping ==
    <<[department |-> "Sales & Partnerships",
      keywords |->
          <<"sales", "partnership", "sponsor", "corporate", "revenue",
            "account executive", "business development", "commercial", "membership",
            "season ticket", "premium sales", "corporate partnership", "sponsorship",
            "account manager", "client acquisition", "premium partnerships",
            "partnership activation", "partnership sales", "corporate partnerships",
            "ticket sales & service", "sales and service", "ticket sales",
            "client relations & retention", "corporate sales & business development",
            "client services", "premium partnerships", "partnership activation",
            "partnership sales">>],
     [department |-> "Ticketing & Operations",
      keywords |->
          <<"ticket", "customer service", "box office", "guest services",
            "hospitality", "customer experience", "membership services",
            "season ticket service", "ticket sales & service",
            "ticket sales & services", "ticket sales & operations",
            "ticket sales, service & operations", "ticket sales",
            "guest services & stadium operations", "ticket operations",
            "ticket sales, services, and operations">>],
     [department |-> "Marketing & Communications",
      keywords |->
          <<"marketing", "communication", "brand", "content", "social media",
            "public relations", "pr", "digital", "creative", "advertising",
            "media relations", "community relations", "graphic designer", "producer",
            "social media coordinator", "videographer", "photographer", "marketing",
            "marketing & media", "communications", "content", "content & digital",
            "marketing & fan engagement", "digital & social media",
            "public relations & community", "marketing, intelligence & broadcasting",
            "marketing & community impact", "media & content",
            "marketing & creative", "digital media", "public relations",
            "digital media and content production", "marketing and brand management">>],
     [department |-> "Fan Experience & Events",
      keywords |->
          <<"fan engagement", "fan experience", "event", "game day", "entertainment",
            "community", "outreach", "promotions", "activation", "fan services",
            "game presentation", "marketing & fan engagement", "community relations",
            "game presentation & live production", "events & game operations",
            "event management & hospitality", "community development",
            "community impact", "community & youth programs",
            "marketing & community impact">>],
     [department |-> "Stadium Operations & Facilities",
      keywords |->
          <<"operations", "facility", "maintenance", "security", "logistics",
            "stadium", "arena", "venue", "game operations", "facilities",
            "equipment", "grounds", "building", "facilities operations",
            "stadium operations", "facility operations", "facilities operations",
            "operations", "guest services & stadium operations",
            "maintenance & grounds", "grounds", "venue operations",
            "events & game operations">>],
     [department |-> "Finance & Administration",
      keywords |->
          <<"finance", "accounting", "controller", "financial", "admin", "hr",
            "human resources", "payroll", "budget", "analyst", "coordinator",
            "assistant", "accountant", "treasurer", "cfo", "chief financial",
            "people", "culture", "inclusion", "legal", "counsel", "attorney",
            "finance", "human resources", "legal", "executive",
            "people, culture & inclusion", "executive office", "people & culture",
            "finance & accounting", "finance and accounting",
            "people, culture, & inclusion", "human resources/business operations",
            "strategy">>],
     [department |-> "Technology & Analytics",
      keywords |->
          <<"technology", "it", "data", "analytics", "digital", "systems", "tech",
            "information technology", "data analyst", "software",
            "football analytics", "application developer", "engineer", "developer",
            "audio visual", "broadcast systems", "information technology",
            "technology", "football analytics",
            "business analytics and data strategy", "business & football operations">>],
     [department |-> "Broadcasting & Media",
      keywords |->
          <<"broadcast", "media", "radio", "television", "tv", "production",
            "commentary", "announcer", "media relations", "digital media", "audio",
            "video", "media asset", "play-by-play", "radio network", "ravens media",
            "media", "broadcasting", "media & content",
            "marketing, intelligence & broadcasting">>]>>

\* The leadership tokens of classify_job_title.
exec_words == <<"ceo", "president", "owner", "chairman", "chief">>

UpperCaseLetters == "ABCDEFGHIJKLMNOPQRSTUVWXYZ"
LowerCaseLetters == "abcdefghijklmnopqrstuvwxyz"

\* str.lower() of one character.
LowerChar(c) ==
    IF \E k \in 1..Len(UpperCaseLetters) : SubSeq(UpperCaseLetters, k, k) = c
    THEN LET k == CHOOSE k \in 1..Len(UpperCaseLetters) : SubSeq(UpperCaseLetters, k, k) = c
         IN  SubSeq(LowerCaseLetters, k, k)
    ELSE c

\* str.lower()
RECURSIVE lower(_)
lower(str) ==
    IF Len(str) = 0 THEN ""
    ELSE IF Len(str) = 1 THEN LowerChar(str)
    ELSE lower(SubSeq(str, 1, Len(str) \div 2))
             \o lower(SubSeq(str, Len(str) \div 2 + 1, Len(str)))

\* keyword in str
Contains(keyword, str) ==
    \E p \in 0..(Len(str) - Len(keyword)) : SubSeq(str, p + 1, p + Len(keyword)) = keyword

\* Mutant: the scan returns the last category that has a keyword in one of
\* the texts instead of the first.
ScanKeywords_last(table, texts, d, tests) ==
    LET hits == {e \in 1..Len(table) :
                    \E j \in 1..Len(table[e].keywords), t \in 1..Len(texts) :
                        Contains(table[e].keywords[j], texts[t])}
    IN  IF hits = {}
        THEN [department |-> NULL, tests |-> tests]
        ELSE [department |-> table[CHOOSE e \in hits : \A f \in hits : f <= e].department,
              tests      |-> tests]

\* for department, keywords in table.items():
\*     for keyword in keywords:
\*         if keyword in text (one of the texts): return department
\* from category d on; tests counts the keywords tested so far.
RECURSIVE ScanKeywords(_, _, _, _)
ScanKeywords(table, texts, d, tests) ==
    IF d > Len(table) THEN [department |-> NULL, tests |-> tests]
    ELSE LET keywords == table[d].keywords
             found == {k \in 1..Len(keywords) :
                          \E t \in 1..Len(texts) : Contains(keywords[k], texts[t])}
         IN  IF found = {}
             THEN ScanKeywords(table, texts, d + 1, tests + Len(keywords))
             ELSE [department |-> table[d].department,
                   tests      |-> tests + (CHOOSE k \in found : \A j \in found : k <= j)]

\* Mutant: classify_job_title without `if not job_title: return 'Other'`.
ClassifyCall_unguarded(title) ==
    LET job_title_lower == lower(IF title = NULL THEN "" ELSE title)
        scan == ScanKeywords(DEPARTMENT_MAPPING, <<job_title_lower>>, 1, 0)
    IN  IF scan.department # NULL THEN scan
        ELSE IF \E e \in 1..Len(exec_words) : Contains(exec_words[e], job_title_lower)
             THEN [department |-> "Executive Leadership", tests |-> scan.tests]
             ELSE [department |-> "Other", tests |-> scan.tests]

\* One call of classify_job_title: the department returned and the number of
\* keywords of DEPARTMENT_MAPPING tested on the way.
ClassifyCall(title) ==
    IF title = NULL \/ title = ""
    THEN [department |-> "Other", tests |-> 0]
    ELSE LET job_title_lower == lower(title)
             scan == ScanKeywords(DEPARTMENT_MAPPING, <<job_title_lower>>, 1, 0)
         IN  IF scan.department # NULL THEN scan
             ELSE IF \E e \in 1..Len(exec_words) : Contains(exec_words[e], job_title_lower)
                  THEN [department |-> "Executive Leadership", tests |-> scan.tests]
                  ELSE [department |-> "Other", tests |-> scan.tests]

classify_job_title(title) == ClassifyCall(title).department

\* (value or "")
OrEmpty(value) == IF value = NULL THEN "" ELSE value

\* One call of categorize_role.
CategorizeCall(title, dept, mapping) ==
    LET job_title_lower     == lower(OrEmpty(title))
        existing_dept_lower == lower(OrEmpty(dept))
        scan == ScanKeywords(mapping, <<job_title_lower, existing_dept_lower>>, 1, 0)
    IN  IF scan.department # NULL THEN scan
        ELSE [department |-> "Other", tests |-> scan.tests]

categorize_role(title, dept, mapping) == CategorizeCall(title, dept, mapping).department

\* The words the job titles below are made of.
Vocabulary ==
    <<"Marketing", "Corporate", "Partnerships", "Sales", "Manager", "Scout", "CEO",
      "President", "chairman">>

\* The words of Vocabulary with an index in S, from word k on, in order and
\* separated by blanks.
RECURSIVE Join(_, _)
Join(S, k) ==
    IF k > Len(Vocabulary) THEN ""
    ELSE LET rest == Join(S, k + 1) IN
         IF k \notin S THEN rest
         ELSE IF rest = "" THEN Vocabulary[k]
         ELSE Vocabulary[k] \o " " \o rest

\* The job titles a call is made with: None, '', and the titles made of
\* words of Vocabulary.
JobTitles == {NULL} \cup {Join(S, 1) : S \in SUBSET (1..Len(Vocabulary))}

\* The values of role.dept a call of categorize_role is made with.
ExistingDepts == {NULL, "", "Ticket Sales", "Football Operations"}

classifier_unchanged ==
    <<store, network_status, organization_summary, roles_data, network_status_records,
      summary_records, i, network_success, org_success, report, prev,
      job_title_mappings, job_title_departments, mapping_success, results, rpc_calls,
      run_pc, run_output, job_title, existing_dept, other, enriched_people,
      retry>>

\* department = classify_job_title(title)
ClassifyJobTitle ==
    /\ pc \in {"idle", "classified", "categorized"}
    /\ pc' = "classified"
    /\ department' = ClassifyCall(job_title).department
    /\ keyword_tests' = ClassifyCall(job_title).tests
    /\ UNCHANGED classifier_unchanged

\* standardized_dept = categorize_role(job_title, existing_dept, department_mapping)
CategorizeRole ==
    /\ pc \in {"idle", "classified", "categorized"}
    /\ pc' = "categorized"
    /\ department' = CategorizeCall(job_title, existing_dept, department_mapping).department
    /\ keyword_tests' = CategorizeCall(job_title, existing_dept, department_mapping).tests
    /\ UNCHANGED classifier_unchanged

----------------------------------------------------------------------------
(* Role rows with their descriptive columns; update_standardized_departments *)

\* role.start_date is an ISO date; its values are ordered as this sequence is.
\* NULL, a missing start date, is none of them.
StartDates == <<"2023-01-01", "2024-06-01">>

\* The position of a start date in that order.
DateRank(d) == CHOOSE k \in 1..Len(StartDates) : StartDates[k] = d

\* The descriptions a role row below has: where it is held, its title, its
\* free-text department, its start date and its executive flag.  No two of
\* them agree in the organization or in the job title.
RoleDescriptions ==
    <<[org_id |-> "X", job_title |-> "Scout", dept |-> NULL,
       start_date |-> StartDates[1], is_executive |-> FALSE],
      [org_id |-> "Y", job_title |-> "Sales Manager", dept |-> "Ticket Sales",
       start_date |-> StartDates[2], is_executive |-> TRUE],
      [org_id |-> "X", job_title |-> "President", dept |-> "",
       start_date |-> NULL, is_executive |-> TRUE],
      [org_id |-> "Y", job_title |-> NULL, dept |-> NULL,
       start_date |-> StartDates[2], is_executive |-> FALSE]>>

\* The role row of person p with description d.  The column
\* standardized_department, added by ALTER TABLE ... ADD COLUMN, is NULL
\* until update_standardized_departments fills it.
DescribedRole(p, d, current) ==
    [person_id    |-> p,
     org_id       |-> RoleDescriptions[d].org_id,
     is_current   |-> current,
     is_executive |-> RoleDescriptions[d].is_executive,
     job_title    |-> RoleDescriptions[d].job_title,
     dept         |-> RoleDescriptions[d].dept,
     standardized_department |-> NULL,
     start_date   |-> RoleDescriptions[d].start_date]

\* Every content of the role table with at most MaxRoles described rows whose
\* is_current is in currents, one order per content.  The first person holds
\* rows of any description, the last person rows of the first description.
DescribedRoleTables(currents) ==
    LET num    == (Len(RoleDescriptions) + 1) * 2
        row(k) == IF k \div 2 < Len(RoleDescriptions)
                  THEN DescribedRole(PersonSeq[1], (k \div 2) + 1, k % 2 = 1)
                  ELSE DescribedRole(PersonSeq[Len(PersonSeq)], 1, k % 2 = 1)
        kinds  == {k \in 0..(num - 1) : row(k).is_current \in currents}
    IN  UNION {{[j \in 1..n |-> row(f[j])] :
                  f \in {g \in [1..n -> kinds] :
                            \A a, b \in 1..n : a <= b => g[a] <= g[b]}} :
               n \in 0..MaxRoles}

\* update_standardized_departments, the step of the migration script that
\* runs before the summary tables are refreshed: every current role is
\* categorized from its job title and department, then updated one by one;
\* an update that raises is reported and the loop goes on, so that any of the
\* roles may keep the value it had.
UpdateStandardizedDepartments ==
    /\ pc = "idle"
    /\ LET standardized_dept ==
               [k \in 1..Len(role) |->
                   categorize_role(role[k].job_title, role[k].dept, department_mapping)]
       IN  \E failed \in SUBSET {k \in 1..Len(role) : role[k].is_current} :
               role' = [k \in 1..Len(role) |->
                           IF role[k].is_current /\ k \notin failed
                           THEN [role[k] EXCEPT !.standardized_department =
                                                    standardized_dept[k]]
                           ELSE role[k]]
    /\ UNCHANGED <<client, person, organization, aux, network_status,
                   organization_summary, pc, roles_data, network_status_records,
                   summary_records, i, network_success, org_success, report, prev>>

----------------------------------------------------------------------------
(* ORDER BY start_date DESC: populate_network_status, get_enriched_people_data *)

\* The store sorts NULL as larger than every date, so that in descending
\* order a row without start_date comes before every row that has one.
Precedes(a, b) == a = NULL \/ (b # NULL /\ DateRank(a) >= DateRank(b))

\* The role rows `rows` (positions of the role table) in an order the store
\* may return them for ORDER BY start_date DESC: rows with equal start_date
\* come in any order.
ByStartDateDesc(rows) ==
    {s \in SeqsOf(rows) :
        \A a, b \in 1..Len(s) :
            a < b => Precedes(role[s[a]].start_date, role[s[b]].start_date)}

\* The row the statement of populate_network_status selects for person p
\* when `first` is the position of the role of LIMIT 1, 0 when p has no
\* current role; the columns of cr and co are NULL then.
PopulatedRow(p, first) ==
    [person_id            |-> p,
     current_job_title    |-> IF first = 0 THEN NULL ELSE role[first].job_title,
     current_department   |-> IF first = 0 THEN NULL ELSE role[first].dept,
     current_organization |-> IF first # 0 /\ role[first].org_id \in organization
                              THEN role[first].org_id ELSE NULL,
     is_executive         |-> IF first = 0 THEN FALSE ELSE role[first].is_executive,
     role_start_date      |-> IF first = 0 THEN NULL ELSE role[first].start_date,
     current_roles_count  |-> Cardinality({k \in 1..Len(role) :
                                  role[k].person_id = p /\ role[k].is_current}),
     total_roles_count    |-> Cardinality({k \in 1..Len(role) : role[k].person_id = p}),
     last_updated         |-> "this_call"]

\* The statement of populate_network_status, run in the SQL editor:
\* INSERT ... SELECT ... FROM person p LEFT JOIN LATERAL (...) ON CONFLICT
\* (person_id) DO UPDATE.  A column the statement does not name,
\* current_standardized_department, keeps the value of the row updated and
\* is NULL in a row inserted.
PopulateNetworkStatus ==
    /\ pc \in {"idle", "ns_done", "populated", "enriched"}
    /\ pc' = "populated"
    /\ prev' = Begin(pc = "ns_done" /\ network_success)
    /\ organization_summary' = Age(organization_summary)
    /\ \E first \in [person -> 0..Len(role)] :
          /\ \A p \in person :
                LET cur == {k \in 1..Len(role) :
                               role[k].person_id = p /\ role[k].is_current}
                IN  IF cur = {} THEN first[p] = 0
                    ELSE \E s \in ByStartDateDesc(cur) : first[p] = s[1]
          /\ network_status' =
                {r \in Age(network_status) : r.person_id \notin person}
                \cup {[f \in DOMAIN PopulatedRow(p, first[p])
                          \cup {"current_standardized_department"} |->
                          IF f # "current_standardized_department"
                          THEN PopulatedRow(p, first[p])[f]
                          ELSE IF \E r \in network_status : r.person_id = p
                          THEN (CHOOSE r \in network_status : r.person_id = p)
                                   .current_standardized_department
                          ELSE NULL] : p \in person}
    /\ UNCHANGED <<store, aux, roles_data, network_status_records, summary_records, i,
                   network_success, org_success, report>>

\* One entry of enriched_people: the person with the fields of the primary
\* role, the first of current_roles.data; organization!inner keeps only the
\* roles whose organization row exists.
EnrichedPerson(p, current_roles) ==
    IF current_roles = <<>>
    THEN [id |-> p, job_title |-> NULL, organization |-> NULL, department |-> NULL,
          start_date |-> NULL, current_roles_count |-> 0, is_executive |-> FALSE]
    ELSE [id |-> p,
          job_title    |-> role[current_roles[1]].job_title,
          organization |-> role[current_roles[1]].org_id,
          department   |-> role[current_roles[1]].dept,
          start_date   |-> role[current_roles[1]].start_date,
          current_roles_count |-> Len(current_roles),
          is_executive |-> role[current_roles[1]].is_executive]

\* get_enriched_people_data(): [] when not connected or when the person
\* query raises; otherwise one entry per person, in the order the persons
\* are returned, an entry without the role fields when the role query of
\* that person raises.
GetEnrichedPeopleData ==
    /\ pc \in {"idle", "ns_done", "populated", "enriched"}
    /\ pc' = "enriched"
    /\ \/ enriched_people' = <<>>
       \/ /\ client # NULL
          /\ LET answers(p) ==
                     ByStartDateDesc({k \in 1..Len(role) :
                                         /\ role[k].person_id = p
                                         /\ role[k].is_current
                                         /\ role[k].org_id \in organization})
             IN  \E people \in SeqsOf(person), raised \in SUBSET person :
                 \E current_roles \in [person -> UNION {answers(p) : p \in person}] :
                     /\ \A p \in person : current_roles[p] \in answers(p)
                     /\ enriched_people' =
                           [k \in 1..Len(people) |->
                               IF people[k] \in raised
                               THEN [id |-> people[k]]
                               ELSE EnrichedPerson(people[k], current_roles[people[k]])]
    /\ UNCHANGED <<store, network_status, organization_summary, roles_data,
                   network_status_records, summary_records, i, network_success,
                   org_success, report, prev, job_title_mappings, job_title_departments,
                   mapping_success, results, rpc_calls, run_pc, run_output, job_title,
                   existing_dept, department, keyword_tests, other, retry>>

----------------------------------------------------------------------------
(* retry_database_operation *)

\* Largest max_retries a caller passes: the default; improved_enrich_person_data
\* passes 2.
MaxRetries == 3

\* The messages of the exceptions operation_func raises.
Exceptions ==
    {"Server disconnected", "Connection reset by peer",
     "server closed the stream", "permission denied"}

\* "Server disconnected" in str(e) or "connection" in str(e).lower()
IsConnectionError(e) == Contains("Server disconnected", e) \/ Contains("connection", lower(e))

\* retry_database_operation(get_current_roles, max_retries): the call, with
\* get_current_roles the role query for one person.
RetryCall ==
    /\ retry.result # "running"
    /\ \E p \in person, max_retries \in 0..MaxRetries :
          retry' = [person_id |-> p, max_retries |-> max_retries, attempt |-> 0,
                    outcomes |-> <<>>, result |-> "running", value |-> <<>>,
                    error |-> NULL]
    /\ UNCHANGED <<store, network_status, organization_summary, pc, roles_data,
                   network_status_records, summary_records, i, network_success,
                   org_success, report, prev, job_title_mappings, job_title_departments,
                   mapping_success, results, rpc_calls, run_pc, run_output, job_title,
                   existing_dept, department, keyword_tests, other, enriched_people>>

\* One pass of `for attempt in range(max_retries)`, or the raise after the
\* loop when the range is exhausted.  operation_func returns the current
\* roles of the person whose organization exists, latest start first, or
\* raises.  In the except clause of a connection error on an attempt that is
\* not the last, logger.warning is evaluated before time.sleep and
\* `continue`; the module defines and imports no name `logger`, so that
\* NameError leaves the function there.
RetryAttempt ==
    /\ retry.result = "running"
    /\ IF retry.attempt >= retry.max_retries
       THEN retry' = [retry EXCEPT !.result = "raised",
                                   !.error = "Database operation failed after attempts"]
       ELSE \/ \E rows \in ByStartDateDesc({k \in 1..Len(role) :
                                               /\ role[k].person_id = retry.person_id
                                               /\ role[k].is_current
                                               /\ role[k].org_id \in organization}) :
                  retry' = [retry EXCEPT !.outcomes = Append(@, "ok"),
                                         !.result = "returned",
                                         !.value = rows]
            \/ \E e \in Exceptions :
                  retry' = [retry EXCEPT
                               !.outcomes = Append(@, e),
                               !.result = "raised",
                               !.error = IF /\ IsConnectionError(e)
                                            /\ retry.attempt < retry.max_retries - 1
                                         THEN "name 'logger' is not defined"
                                         ELSE e]
    /\ UNCHANGED <<store, network_status, organization_summary, pc, roles_data,
                   network_status_records, summary_records, i, network_success,
                   org_success, report, prev, job_title_mappings, job_title_departments,
                   mapping_success, results, rpc_calls, run_pc, run_output, job_title,
                   existing_dept, department, keyword_tests, other, enriched_people>>

----------------------------------------------------------------------------
(* Two refresh processes at once *)

\* refresh_summary_tables.py takes no lock and opens no transaction: a second
\* process that runs it executes the same statements against the same
\* tables, alone with its own locals.  The actions above are the steps of
\* the process that is scheduled; Switch takes the processor from it and
\* gives it to the other process, whose locals wait in `other`.
Switch ==
    /\ other' = [pc |-> pc, roles_data |-> roles_data,
                 network_status_records |-> network_status_records,
                 summary_records |-> summary_records, i |-> i,
                 network_success |-> network_success, org_success |-> org_success]
    /\ pc' = other.pc
    /\ roles_data' = other.roles_data
    /\ network_status_records' = other.network_status_records
    /\ summary_records' = other.summary_records
    /\ i' = other.i
    /\ network_success' = other.network_success
    /\ org_success' = other.org_success
    /\ UNCHANGED <<store, network_status, organization_summary, report, prev,
                   job_title_mappings, job_title_departments, mapping_success,
                   results, rpc_calls, run_pc, run_output, job_title, existing_dept,
                   department, keyword_tests, enriched_people, retry>>

----------------------------------------------------------------------------
(* The source store written while a refresh runs *)

\* The contact import, for one contact whose person and organization exist:
\* role_data carries the contact's job title and today's date; the current
\* role of the person at the organization is updated with it, and where
\* there is none a role is inserted, current and not executive by the
\* defaults of the table.  It may run at any moment of a running refresh.
\* The imported file holds contacts of the first person, at any organization.
ImportRole ==
    \E p \in person \cap {PersonSeq[1]}, o \in organization :
        LET role_data     == [job_title |-> RoleDescriptions[1].job_title,
                              start_date |-> StartDates[Len(StartDates)]]
            existing_role == {k \in 1..Len(role) : /\ role[k].person_id = p
                                                   /\ role[k].org_id = o
                                                   /\ role[k].is_current}
        IN  /\ IF existing_role # {}
               THEN \E k \in existing_role :
                        role' = [role EXCEPT ![k].job_title = role_data.job_title,
                                             ![k].start_date = role_data.start_date]
               ELSE /\ Len(role) < MaxRoles
                    /\ role' = Append(role,
                                  [person_id    |-> p,
                                   org_id       |-> o,
                                   is_current   |-> TRUE,
                                   is_executive |-> FALSE,
                                   job_title    |-> role_data.job_title,
                                   dept         |-> NULL,
                                   standardized_department |-> NULL,
                                   start_date   |-> role_data.start_date])
            /\ UNCHANGED <<client, person, organization, aux, network_status,
                           organization_summary, pc, roles_data, network_status_records,
                           summary_records, i, network_success, org_success, report, prev>>

----------------------------------------------------------------------------
(* C11 *)

\* C11: after a successful refresh_network_status no two rows of
\* network_status share a person_id, and the records the refresh computes
\* never hold two records of one person, so that no insert is rejected for it;
\* whatever the number of current roles of a person and of insert batches.
C11_UniquePersonId ==
    /\ NsSucceeded =>
          Cardinality({r.person_id : r \in network_status}) = Cardinality(network_status)
    /\ pc = "ns_insert" =>
          Cardinality({network_status_records[k].person_id :
                          k \in 1..Len(network_status_records)})
              = Len(network_status_records)

\* C11 witness: a refresh that inserted three batches succeeded, and the
\* person with two current roles has one row.
C11_Witness ==
    /\ NsSucceeded
    /\ Cardinality(network_status) > 2 * ns_batch_size
    /\ Cardinality({r \in network_status : r.person_id = 1}) = 1
    /\ \E r \in network_status : r.person_id = 1 /\ r.current_roles_count = 2

----------------------------------------------------------------------------
(* C12 *)

\* The current roles of person p whose organization row exists.
ValidCurrentRolesOf(p) == {k \in CurrentRolesOf(p) : role[k].org_id \in organization}

\* C12: after a successful refresh_network_status every person who holds a
\* current role whose organization exists has a network_status row, and the
\* current organization of that row is an existing organization of one of
\* the person's current roles, also when another current role of the person
\* references a missing organization.
C12_PersonNotLost ==
    NsSucceeded =>
        \A p \in person :
            ValidCurrentRolesOf(p) # {} =>
                \E r \in network_status :
                    /\ r.person_id = p
                    /\ r.current_organization \in
                           {role[k].org_id : k \in ValidCurrentRolesOf(p)}

----------------------------------------------------------------------------
(* C13 *)

\* A store some of whose person and organization rows are gone while role
\* rows still reference them: of the persons none or the last is gone, of the
\* organizations none, the last or all (which one is gone is immaterial, the
\* role tables are the same up to renaming).
StoreInitMissing ==
    /\ client \in {"ok", NULL}
    /\ person \in {PersonIds, PersonIds \ {PersonSeq[Len(PersonSeq)]}}
    /\ organization \in {OrgIds, OrgIds \ {OrgSeq[Len(OrgSeq)]}, {}}
    /\ role \in RoleTables

\* Steps 3-4 of refresh_network_status going through without an exception.
NsProcessed == NsProcess /\ (pc' = "ns_insert" \/ network_success')

\* Steps 2-4 of refresh_organization_summary going through without an exception.
OsFetched == OsFetch /\ (pc' = "os_insert" \/ org_success')

\* The persons with a current role whose current roles all reference an
\* existing organization.
PeopleWithValidRoles ==
    {p \in person : CurrentRolesOf(p) # {} /\ ValidCurrentRolesOf(p) = CurrentRolesOf(p)}

----------------------------------------------------------------------------
(* C14 *)

\* Both tables hold what they held when the running call began.
TablesUntouched ==
    /\ network_status = prev.network_status
    /\ organization_summary = prev.organization_summary

\* C14: when the store cannot be reached, refresh_network_status and
\* refresh_organization_summary abort and return False without having deleted
\* or inserted a row.  Without a client the call ends at the is_connected
\* guard, before any store call; with a client whose first store call, the
\* delete, fails, the call ends there; either way both tables hold what they
\* held before the call.
C14_ConnectionUnavailable ==
    /\ [](client = NULL =>
            /\ pc \in {"idle", "ns_connect", "ns_done", "os_connect", "os_done"}
            /\ pc = "ns_done" => ~network_success /\ TablesUntouched
            /\ pc = "os_done" => ~org_success /\ TablesUntouched)
    /\ [][/\ pc = "ns_delete" /\ pc' = "ns_done"
              => ~network_success' /\ TablesUntouched'
          /\ pc = "os_delete" /\ pc' = "os_done"
              => ~org_success' /\ TablesUntouched']_vars

\* C14 witness: refresh_organization_summary returned False for want of a
\* client and the rows of the earlier refresh are still in both tables.
C14_Witness ==
    /\ client = NULL
    /\ pc = "os_done"
    /\ ~org_success
    /\ organization_summary = StaleOrganizationSummary
    /\ network_status = StaleNetworkStatus

----------------------------------------------------------------------------
(* C15 *)

\* The insert of the batch at offset i failed: refresh_network_status, with
\* batches left to insert.
NsBatchFailed ==
    /\ pc = "ns_insert"
    /\ UNCHANGED network_status
    /\ i + ns_batch_size < Len(network_status_records)

\* The insert of the batch at offset i failed:
\* create_job_title_department_table, with batches left to insert.
MappingBatchFailed ==
    /\ pc = "jt_insert"
    /\ UNCHANGED job_title_departments
    /\ i + mapping_batch_size < Len(job_title_mappings)

\* C15 as stated: when an insert batch fails while a table is being written,
\* by refresh_network_status or by create_job_title_department_table, the
\* writer goes on with the next batch.
C15_ContinueAfterFailedBatch ==
    [][/\ NsBatchFailed => pc' = "ns_insert" /\ i' = i + ns_batch_size
       /\ MappingBatchFailed => pc' = "jt_insert" /\ i' = i + mapping_batch_size]_vars

\* C15 amended: when an insert batch of create_job_title_department_table
\* fails, the loop goes on with the next batch, which is inserted if its
\* insert succeeds, and the function returns True after the last batch.  When
\* an insert batch of refresh_network_status fails, the loop ends there: no
\* later batch is attempted and the function returns False.
C15_ContinueOnlyInMappingWriter ==
    [][/\ MappingBatchFailed =>
             /\ pc' = "jt_insert"
             /\ i' = i + mapping_batch_size
             /\ job_title_mappings' = job_title_mappings
       /\ pc = "jt_insert" /\ pc' = "jt_done" => mapping_success'
       /\ pc = "jt_insert" /\ job_title_departments' # job_title_departments =>
             job_title_departments' = job_title_departments
                 \cup Range(Slice(job_title_mappings, i, mapping_batch_size))
       /\ NsBatchFailed =>
             /\ pc' = "ns_done"
             /\ ~network_success'
             /\ network_status_records' = <<>>]_vars

\* C15 witness: create_job_title_department_table has returned after its
\* first batch failed and its second batch was inserted.
C15_Witness ==
    /\ pc = "jt_done"
    /\ mapping_success
    /\ \A r \in job_title_departments : r.job_title # 1
    /\ \E r \in job_title_departments : r.job_title = mapping_batch_size + 1

----------------------------------------------------------------------------
(* C16 *)

\* C16: in main, when refresh_network_status has returned, True or False,
\* the next thing that happens is the call of refresh_organization_summary;
\* that call is made from nowhere else, refresh_network_status is called
\* only at the start of main, and when refresh_organization_summary has
\* returned main reports and ends: each refresh runs once, neither is retried.
C16_BothRefreshesOnce ==
    [][/\ pc = "ns_done" => pc' = "os_connect"
       /\ pc' = "os_connect" => pc = "ns_done"
       /\ pc' = "ns_connect" => pc = "idle"
       /\ pc = "os_done" => pc' = "idle" /\ report' # "none"]_vars

\* C16 witness: refresh_organization_summary has run and succeeded after
\* refresh_network_status returned False.
C16_Witness ==
    /\ pc = "os_done"
    /\ ~network_success
    /\ org_success
    /\ organization_summary # {}

----------------------------------------------------------------------------
(* C17 *)

\* C17: when EnhancedDatabaseManager.refresh_summary_tables has returned,
\* the organization_summary refresh was attempted, also when the
\* network_status refresh raised, and the result reports each table on its
\* own: the entry of a table whose rpc returned is the data that rpc returned.
C17_IndependentOutcomes ==
    pc = "enh_done" =>
        /\ \E k \in 1..Len(rpc_calls) : rpc_calls[k].rpc = "refresh_organization_summary"
        /\ \A k \in 1..Len(rpc_calls) :
              /\ rpc_calls[k].rpc = "refresh_network_status" /\ ~rpc_calls[k].raised
                    => results.network_status = rpc_calls[k].data
              /\ rpc_calls[k].rpc = "refresh_organization_summary" /\ ~rpc_calls[k].raised
                    => results.organization_summary = rpc_calls[k].data

----------------------------------------------------------------------------
(* C18 *)

\* C18: the refresh entry points report success only when both refreshes
\* succeeded.  When main has printed its success line, and when
\* `run.py refresh` has printed that the tables were refreshed successfully,
\* refresh_network_status and refresh_organization_summary both returned True.
C18_SuccessOnlyWhenBoth ==
    /\ report = "success" => network_success /\ org_success
    /\ run_output = "Summary tables refreshed successfully."
          => network_success /\ org_success

----------------------------------------------------------------------------
(* C19 *)

\* The categories of a table, by position, that have a keyword occurring in
\* one of the texts.
MatchingCategories(table, texts) ==
    {d \in 1..Len(table) :
        \E k \in 1..Len(table[d].keywords), t \in 1..Len(texts) :
            Contains(table[d].keywords[k], texts[t])}

\* The first of them in table order.
FirstCategory(table, texts) ==
    table[CHOOSE d \in MatchingCategories(table, texts) :
              \A e \in MatchingCategories(table, texts) : d <= e].department

\* The job title of the call, lowercased; None counts as ''.
TitleText == lower(OrEmpty(job_title))

\* The existing department of the call, lowercased; None counts as ''.
DeptText == lower(OrEmpty(existing_dept))

\* The title of the example.
ExampleTitle == "Corporate Partnerships Sales Manager"

\* C19 as stated: each department classifier, classify_job_title and
\* categorize_role, returns the first category of its table, in table
\* order, that has a keyword occurring in the lowercased job title, and
\* "Corporate Partnerships Sales Manager" is "Sales & Partnerships".
C19_FirstCategoryByTitle ==
    /\ pc \in {"classified", "categorized"} /\ job_title = ExampleTitle
          => department = "Sales & Partnerships"
    /\ pc = "classified" /\ MatchingCategories(DEPARTMENT_MAPPING, <<TitleText>>) # {}
          => department = FirstCategory(DEPARTMENT_MAPPING, <<TitleText>>)
    /\ pc = "categorized" /\ MatchingCategories(department_mapping, <<TitleText>>) # {}
          => department = FirstCategory(department_mapping, <<TitleText>>)

\* C19 amended: classify_job_title returns the first category of
\* DEPARTMENT_MAPPING, in table order, that has a keyword occurring in the
\* lowercased job title; categorize_role returns the first category of
\* department_mapping, in table order, that has a keyword occurring in the
\* lowercased job title or in the lowercased existing department of the
\* role; under both "Corporate Partnerships Sales Manager" is
\* "Sales & Partnerships".
C19_FirstCategoryInTableOrder ==
    /\ pc \in {"classified", "categorized"} /\ job_title = ExampleTitle
          => department = "Sales & Partnerships"
    /\ pc = "classified" /\ MatchingCategories(DEPARTMENT_MAPPING, <<TitleText>>) # {}
          => department = FirstCategory(DEPARTMENT_MAPPING, <<TitleText>>)
    /\ pc = "categorized"
          /\ MatchingCategories(department_mapping, <<TitleText, DeptText>>) # {}
          => department = FirstCategory(department_mapping, <<TitleText, DeptText>>)

\* C19 witness: classify_job_title has classified a title in which a keyword
\* of a later category comes before the keyword of the first matching one.
C19_Witness ==
    /\ pc = "classified"
    /\ job_title = "Marketing Sales"
    /\ department = "Sales & Partnerships"
    /\ Cardinality(MatchingCategories(DEPARTMENT_MAPPING, <<TitleText>>)) > 1

----------------------------------------------------------------------------
(* C20 *)

\* C20: for the job title None or '' classify_job_title returns "Other"
\* without testing a keyword of the table; for a title in which no keyword of
\* the table and no leadership token occurs it returns "Other" as well.
C20_OtherByDefault ==
    pc = "classified" =>
        /\ job_title \in {NULL, ""} => department = "Other" /\ keyword_tests = 0
        /\ /\ job_title \notin {NULL, ""}
           /\ MatchingCategories(DEPARTMENT_MAPPING, <<TitleText>>) = {}
           /\ MatchingCategories(<<[department |-> "Executive Leadership",
                                    keywords |-> exec_words]>>, <<TitleText>>) = {}
           => department = "Other"

\* C20 witness: classify_job_title has returned "Other" for None.
C20_Witness ==
    /\ pc = "classified"
    /\ job_title = NULL
    /\ department = "Other"
    /\ keyword_tests = 0

----------------------------------------------------------------------------
(* C21 *)

\* The titles that consist of one leadership token, lowercased.
LeadershipTitles == {"ceo", "president", "chairman"}

\* C21: for a job title that consists of one leadership token, "ceo",
\* "president" or "chairman" in any letter case, classify_job_title returns
\* "Executive Leadership".
C21_LeadershipTokens ==
    pc = "classified" /\ TitleText \in LeadershipTitles
        => department = "Executive Leadership"

----------------------------------------------------------------------------
(* C22 *)

\* The role a computed record was built from: the first role of its person
\* in roles_data.
PrimaryOf(record) == primary_role(person_roles(roles_data, record.person_id))

\* C22: the current_standardized_department of a network_status row is the
\* standardized_department of the primary role when the role has one, and
\* otherwise the category classify_job_title gives the primary role's job
\* title; it is not empty for a role that has a job title.
C22_StandardizedDepartment ==
    /\ pc = "ns_insert" =>
          \A k \in 1..Len(network_status_records) :
              LET record  == network_status_records[k]
                  primary == PrimaryOf(record)
              IN  record.current_standardized_department =
                      IF primary.standardized_department # NULL
                      THEN primary.standardized_department
                      ELSE classify_job_title(primary.job_title)
    /\ NsSucceeded =>
          \A r \in network_status :
              r.current_job_title # NULL => r.current_standardized_department # NULL

----------------------------------------------------------------------------
(* C23 *)

\* C23: over the same source store, populate_network_status produces a
\* network_status row for the same set of persons as refresh_network_status:
\* when the statement has run right after a successful Python refresh, the
\* table holds rows for the persons the refresh left rows for.
C23_SamePersons ==
    pc = "populated" /\ prev.valid
        => {r.person_id : r \in network_status}
               = {r.person_id : r \in prev.network_status}

----------------------------------------------------------------------------
(* C26 *)

\* No current role of person p has a start date later than `selected`, the
\* start date of the role selected as primary; a missing start date is
\* later than none.
NoLaterCurrentRole(p, selected) ==
    \A k \in CurrentRolesOf(p) :
        role[k].start_date # NULL
            => selected # NULL /\ DateRank(selected) >= DateRank(role[k].start_date)

\* C26: the primary role populate_network_status and
\* get_enriched_people_data select for a person is a current role with the
\* most recent start_date among the person's current roles: none of them has
\* a later start_date than the one selected.
C26_MostRecentStartDate ==
    /\ pc = "populated" =>
          \A r \in network_status :
              CurrentRolesOf(r.person_id) # {}
                  => NoLaterCurrentRole(r.person_id, r.role_start_date)
    /\ pc = "enriched" =>
          \A k \in 1..Len(enriched_people) :
              LET e == enriched_people[k] IN
              "start_date" \in DOMAIN e /\ e.current_roles_count > 0
                  => NoLaterCurrentRole(e.id, e.start_date)

----------------------------------------------------------------------------
(* C24 *)

\* C24: two refreshes of the same summary table that run at once over an
\* unchanged source store interfere.  When one of them reaches its insert
\* loop and the table it has cleared holds rows again, rows the other
\* refresh has inserted in between, its insert is rejected: the only step
\* left to it is the one that returns False, so one of the two runs fails.
C24_ConcurrentInsertRejected ==
    /\ pc = "ns_insert" /\ network_status # {}
          => ~ENABLED (NsInsert /\ network_status' # network_status)
    /\ pc = "os_insert" /\ organization_summary # {}
          => ~ENABLED (OsInsert /\ organization_summary' # organization_summary)

\* C24 witness: both processes have cleared network_status and computed
\* their records, the other one has inserted its records and returned True,
\* and this one is about to insert.
C24_Witness ==
    /\ pc = "ns_insert"
    /\ i = 0
    /\ other.pc = "ns_done"
    /\ other.network_success
    /\ network_status # {}
    /\ \A r \in network_status : r.last_updated = "this_call"

----------------------------------------------------------------------------
(* C25 *)

\* The rows refresh_organization_summary computes from the store as it is.
SummaryOfStore ==
    {[org_id            |-> o,
      current_employees |-> current_employees(role, o),
      total_employees   |-> total_employees(role, o),
      executive_count   |-> executive_count(role, o)] : o \in organization}

\* The row sets refresh_network_status computes from the store as it is, one
\* for each order the store may return the current roles in.
StatusesOfStore ==
    {Data(Range(NetworkStatusRecords(rd, role))) : rd \in Orders(CurrentRoles)}

\* C25: a refresh that completes successfully with the source store unchanged
\* since it began leaves both summary tables equal to the projection of the
\* store as it then is, whatever the tables held before, rows of a refresh
\* that ran while the store was written included.
C25_Converges ==
    /\ NsSucceeded /\ prev.role = role => Data(network_status) \in StatusesOfStore
    /\ pc = "os_done" /\ network_success /\ org_success /\ prev.role = role
          => /\ Data(network_status) \in StatusesOfStore
             /\ Data(organization_summary) = SummaryOfStore

\* C25 witness: the command has completed successfully on an unchanged store,
\* and the network_status it began on was partly old and partly new: a row
\* counting fewer current roles than roles, in a store whose roles are all
\* current.
C25_Witness ==
    /\ pc = "os_done" /\ network_success /\ org_success /\ prev.role = role
    /\ \E r \in prev.network_status : r.current_roles_count < r.total_roles_count
    /\ \A r \in network_status : r.current_roles_count = r.total_roles_count

----------------------------------------------------------------------------
(* C27 *)

\* The position in roles_data of the first role returned for person p.
FirstReturned(p) ==
    CHOOSE j \in 1..Len(roles_data) :
        /\ roles_data[j].person = p
        /\ \A h \in 1..(j - 1) : roles_data[h].person # p

\* C27: the current-role fields of a computed network_status record
\* (current_job_title, current_department, current_organization with the
\* organization fields it stands for, role_start_date, is_executive) are all
\* those of one current role of the person, the first one the roles query
\* returned for that person; is_executive is never that of another role.
C27_OneCurrentRole ==
    pc = "ns_insert" =>
        \A k \in 1..Len(network_status_records) :
            LET record == network_status_records[k]
                first  == roles_data[FirstReturned(record.person_id)]
            IN  /\ record.current_job_title = first.job_title
                /\ record.current_department = first.dept
                /\ record.current_organization = first.organization
                /\ record.role_start_date = first.start_date
                /\ record.is_executive = first.is_executive

\* C27 witness: a record is computed for a person whose first returned role
\* is not executive while a later current role of the same person, with
\* another title at another organization, is.
C27_Witness ==
    /\ pc = "ns_insert"
    /\ \E k \in 1..Len(network_status_records), j \in 1..Len(roles_data) :
          LET record == network_status_records[k] IN
          /\ roles_data[j].person = record.person_id
          /\ j > FirstReturned(record.person_id)
          /\ roles_data[j].is_executive
          /\ roles_data[j].job_title # record.current_job_title
          /\ roles_data[j].organization # record.current_organization
          /\ ~record.is_executive

----------------------------------------------------------------------------
(* C28 *)

\* ceil(n / b)
Batches(n, b) == (n + b - 1) \div b

\* Entering the loop body at offset from: the batches before it are whole,
\* there is a record left, and the table holds the records before the offset.
InsertedSoFar(table, records, from, b) ==
    /\ from % b = 0
    /\ from < Len(records)
    /\ table = {records[k] : k \in 1..from}

\* One insert at offset from: it adds the next records of the list, at most b
\* and at least one, none of them in the table before; it is the last insert,
\* after which the function returns, exactly when it is insert ceil(n / b).
BatchInserted(table, inserted, records, from, b, next, returned) ==
    /\ inserted = table \cup {records[k] : k \in (from + 1)..Min(from + b, Len(records))}
    /\ Cardinality(inserted \ table) \in 1..b
    /\ Cardinality(inserted \ table) = Min(from + b, Len(records)) - from
    /\ IF (from \div b) + 1 < Batches(Len(records), b)
       THEN ~returned /\ next = from + b
       ELSE returned

\* C28: the batches of either summary writer partition the record list: each
\* insert adds the next at most b records (200 for network_status, 100 for
\* organization_summary) in list order, every record by exactly one insert,
\* ceil(n / b) inserts in all; an empty record list never reaches the loop,
\* and no other step inserts.
C28_Partition ==
    /\ [](/\ pc = "ns_insert"
             => InsertedSoFar(network_status, network_status_records, i, ns_batch_size)
          /\ pc = "os_insert"
             => InsertedSoFar(organization_summary, summary_records, i, os_batch_size))
    /\ [][/\ pc = "ns_insert" /\ network_status' # network_status
             => BatchInserted(network_status, network_status', network_status_records, i,
                              ns_batch_size, i', pc' = "ns_done" /\ network_success')
          /\ pc = "os_insert" /\ organization_summary' # organization_summary
             => BatchInserted(organization_summary, organization_summary', summary_records, i,
                              os_batch_size, i', pc' = "os_done" /\ org_success')
          /\ ~(Data(network_status') \subseteq Data(network_status)) => pc = "ns_insert"
          /\ ~(Data(organization_summary') \subseteq Data(organization_summary))
             => pc = "os_insert"]_vars

\* C28 witness: refresh_organization_summary has returned True after three
\* inserts, two whole batches and a last one of the records left.
C28_Witness ==
    /\ OsSucceeded
    /\ Cardinality(organization_summary) > 2 * os_batch_size
    /\ Cardinality(organization_summary) < 3 * os_batch_size

----------------------------------------------------------------------------
(* C29 *)

\* The records of the first k batches of size b.
FirstBatches(records, k, b) == {records[j] : j \in 1..Min(k * b, Len(records))}

\* A table during or after one run that found it holding `before`: what it
\* held before, or no rows, or rows of the run only.
OldEmptyOrNew(table, before) ==
    \/ table = before
    \/ table = {}
    \/ \A r \in table : r.last_updated = "this_call"

\* A table when its run returns from the step at `at`: from the insert loop
\* with the first k batches of the records, for some k, and from any earlier
\* step with what it held before or with no rows.
LeftAtReturn(table, before, at, records, b) ==
    IF at \in {"ns_insert", "os_insert"}
    THEN \E k \in 0..Batches(Len(records), b) : table = FirstBatches(records, k, b)
    ELSE table \in {before, {}}

\* C29: at every point of one run of refresh_network_status or of
\* refresh_organization_summary, a run that returned False included, the
\* target table holds what it held before the run, or no rows, or the first k
\* batches of the records the run computed; rows from before the run are
\* never in it together with rows of the run.
C29_OldEmptyOrPrefix ==
    /\ [](/\ pc \in {"ns_connect", "ns_delete", "ns_fetch", "ns_process", "ns_insert", "ns_done"}
             => OldEmptyOrNew(network_status, prev.network_status)
          /\ pc \in {"os_connect", "os_delete", "os_fetch", "os_insert", "os_done"}
             => OldEmptyOrNew(organization_summary, prev.organization_summary)
          /\ pc = "ns_insert"
             => network_status =
                    FirstBatches(network_status_records, i \div ns_batch_size, ns_batch_size)
          /\ pc = "os_insert"
             => organization_summary =
                    FirstBatches(summary_records, i \div os_batch_size, os_batch_size))
    /\ [][/\ pc' = "ns_done"
             => LeftAtReturn(network_status', prev.network_status, pc,
                             network_status_records, ns_batch_size)
          /\ pc' = "os_done"
             => LeftAtReturn(organization_summary', prev.organization_summary, pc,
                             summary_records, os_batch_size)]_vars

\* C29 witness: refresh_network_status has returned False from its insert
\* loop with the first batch in the table and records left to insert.
C29_Witness ==
    /\ pc = "ns_done"
    /\ ~network_success
    /\ Cardinality(network_status) = ns_batch_size
    /\ Len(role) > ns_batch_size + 1

----------------------------------------------------------------------------
(* C30 *)

\* C30: retry_database_operation calls the operation at most max_retries
\* times; when it returns, the last attempt is the first that succeeded; it
\* does not end after a connection-type failure ("Server disconnected" or
\* "connection" in the message) on an attempt that is not the last, but makes
\* another attempt; an error that is not connection-related is re-raised at
\* once, as is a connection-type failure of the last attempt.
C30_RetriesWithBackoff ==
    LET n    == Len(retry.outcomes)
        last == retry.outcomes[n]
    IN  /\ n <= retry.max_retries
        /\ retry.result = "returned" =>
              /\ last = "ok"
              /\ \A k \in 1..(n - 1) : retry.outcomes[k] # "ok"
        /\ retry.result = "raised" /\ n > 0 =>
              /\ last # "ok"
              /\ IsConnectionError(last) => n = retry.max_retries
              /\ retry.error = last

----------------------------------------------------------------------------
(* Specifications *)

LocalsInit ==
    /\ pc = "idle"
    /\ roles_data = <<>>
    /\ network_status_records = <<>>
    /\ summary_records = <<>>
    /\ i = 0
    /\ network_success = FALSE
    /\ org_success = FALSE
    /\ report = "none"
    /\ prev = [valid |-> FALSE, network_status |-> {}, organization_summary |-> {},
               role |-> role]
    /\ AuxInit

\* refresh_organization_summary called on its own, again and again, over a
\* table that starts empty or holds stale rows.
InitOS ==
    /\ StoreInit
    /\ LocalsInit
    /\ network_status = {}
    /\ organization_summary \in {{}, StaleOrganizationSummary}

NextOS == CallOrganizationSummary \/ OsConnect \/ OsDelete \/ OsFetch \/ OsInsert

SpecOS == InitOS /\ [][NextOS]_vars

\* refresh_network_status called on its own, again and again, over a table
\* that starts empty or holds stale rows.
InitNS ==
    /\ StoreInit
    /\ LocalsInit
    /\ network_status \in {{}, StaleNetworkStatus}
    /\ organization_summary = {}

NextNS == CallNetworkStatus \/ NsConnect \/ NsDelete \/ NsFetch \/ NsProcess \/ NsInsert

SpecNS == InitNS /\ [][NextNS]_vars

\* refresh_network_status called on its own as in SpecNS, or entering its
\* insert loop over the large store.
InitNSBatches == InitNS \/ InitNsInsertLoop

NextNSBatches ==
    \/ Len(role) <= MaxRoles /\ CallNetworkStatus
    \/ NsConnect \/ NsDelete \/ NsFetch \/ NsProcess \/ NsInsert

SpecNSBatches == InitNSBatches /\ [][NextNSBatches]_vars

\* Either refresh function called on its own, again and again, over a store
\* that may have lost person and organization rows and over tables that hold
\* the rows of an earlier refresh.
InitCalls ==
    /\ StoreInitMissing
    /\ LocalsInit
    /\ network_status = StaleNetworkStatus
    /\ organization_summary = StaleOrganizationSummary

NextCalls ==
    \/ CallNetworkStatus \/ NsConnect \/ NsDelete \/ NsFetch \/ NsProcess \/ NsInsert
    \/ CallOrganizationSummary \/ OsConnect \/ OsDelete \/ OsFetch \/ OsInsert

SpecCalls == InitCalls /\ [][NextCalls]_vars

\* The two batch writers over more records than one batch holds:
\* refresh_network_status entering its insert loop, and
\* create_job_title_department_table about to clear its table.
InitBatches == InitNsInsertLoop \/ InitMappingWriter

NextBatches == NsInsert \/ MappingDelete \/ MappingInsert

SpecBatches == InitBatches /\ [][NextBatches]_vars

\* Each refresh function called once over the small store, its table empty
\* or holding stale rows, or entering its insert loop over a large store.
InitSummaryBatches == InitNS \/ InitOS \/ InitNsInsertLoop \/ InitOsInsertLoop

NextSummaryBatches ==
    \/ pc = "idle" /\ CallNetworkStatus
    \/ NsConnect \/ NsDelete \/ NsFetch \/ NsProcess \/ NsInsert
    \/ pc = "idle" /\ CallOrganizationSummary
    \/ OsConnect \/ OsDelete \/ OsFetch \/ OsInsert

SpecSummaryBatches == InitSummaryBatches /\ [][NextSummaryBatches]_vars

\* retry_database_operation called again and again with the role query of
\* improved_enrich_person_data, over a store of described current roles.
InitRetry ==
    /\ client = "ok"
    /\ person = PersonIds
    /\ organization = OrgIds
    /\ role \in DescribedRoleTables({TRUE})
    /\ LocalsInit
    /\ network_status = {}
    /\ organization_summary = {}

NextRetry == RetryCall \/ RetryAttempt

SpecRetry == InitRetry /\ [][NextRetry]_vars

\* The refresh command run again and again while the import writes roles;
\* the store holds at most one role when the first import begins, and the
\* tables are empty or hold the rows of an earlier refresh.
InitUpdates ==
    /\ client = "ok"
    /\ person = PersonIds
    /\ organization = OrgIds
    /\ role \in {t \in DescribedRoleTables({TRUE}) : Len(t) <= 1}
    /\ LocalsInit
    /\ \/ network_status = {} /\ organization_summary = {}
       \/ network_status = StaleNetworkStatus /\ organization_summary = StaleOrganizationSummary

NextUpdates ==
    \/ MainStart
    \/ NsConnect \/ NsDelete \/ NsFetch \/ NsProcess \/ NsInsert
    \/ MainCallOrg
    \/ OsConnect \/ OsDelete \/ OsFetch \/ OsInsert
    \/ MainReport
    \/ ImportRole

SpecUpdates == InitUpdates /\ [][NextUpdates]_vars

\* The refresh command, run again and again; both tables are empty when created.
Init ==
    /\ StoreInit
    /\ LocalsInit
    /\ network_status = {}
    /\ organization_summary = {}

Next ==
    \/ MainStart
    \/ NsConnect \/ NsDelete \/ NsFetch \/ NsProcess \/ NsInsert
    \/ MainCallOrg
    \/ OsConnect \/ OsDelete \/ OsFetch \/ OsInsert
    \/ MainReport

Spec == Init /\ [][Next]_vars

\* EnhancedDatabaseManager.refresh_summary_tables called again and again.
NextEnhanced == EnhancedStart \/ EnhancedNetwork \/ EnhancedOrg

SpecEnhanced == Init /\ [][NextEnhanced]_vars

\* `run.py refresh` run again and again.
NextRun ==
    \/ RunRefresh
    \/ RunMain
    \/ NsConnect \/ NsDelete \/ NsFetch \/ NsProcess \/ NsInsert
    \/ MainCallOrg
    \/ OsConnect \/ OsDelete \/ OsFetch \/ OsInsert
    \/ MainReport
    \/ RunPrint

SpecRun == Init /\ [][NextRun]_vars

\* refresh_network_status called on its own, again and again, over role rows
\* that carry their descriptive columns, with update_standardized_departments
\* run between the calls.
InitDescribed ==
    /\ client = "ok"
    /\ person = PersonIds
    /\ organization = OrgIds
    /\ role \in DescribedRoleTables({TRUE})
    /\ LocalsInit
    /\ network_status = {}
    /\ organization_summary = {}

NextDescribed ==
    \/ UpdateStandardizedDepartments
    \/ CallNetworkStatus \/ NsConnect \/ NsDelete \/ NsFetch \/ NsProcess \/ NsInsert

SpecDescribed == InitDescribed /\ [][NextDescribed]_vars

\* The code paths that select a primary role, over role rows that carry
\* their descriptive columns: refresh_network_status, then the statement of
\* populate_network_status and get_enriched_people_data.
InitPrimary ==
    /\ client = "ok"
    /\ person = PersonIds
    /\ organization = OrgIds
    /\ role \in DescribedRoleTables(BOOLEAN)
    /\ LocalsInit
    /\ network_status = {}
    /\ organization_summary = {}

NextPrimary ==
    \/ CallNetworkStatus \/ NsConnect \/ NsDelete \/ NsFetch \/ NsProcess \/ NsInsert
    \/ PopulateNetworkStatus
    \/ GetEnrichedPeopleData

SpecPrimary == InitPrimary /\ [][NextPrimary]_vars

\* Two processes that each call one of the refresh functions, over a source
\* store that does not change.
InitConcurrent ==
    /\ client = "ok"
    /\ person = PersonIds
    /\ organization = OrgIds
    /\ role \in DescribedRoleTables({TRUE})
    /\ LocalsInit
    /\ network_status = {}
    /\ organization_summary = {}

NextConcurrent ==
    \/ pc = "idle" /\ CallNetworkStatus
    \/ NsConnect \/ NsDelete \/ NsFetch \/ NsProcess \/ NsInsert
    \/ pc = "idle" /\ CallOrganizationSummary
    \/ OsConnect \/ OsDelete \/ OsFetch \/ OsInsert
    \/ Switch

SpecConcurrent == InitConcurrent /\ [][NextConcurrent]_vars

\* The two classifiers called, again and again, with one job title and one
\* existing department.
InitClassifier ==
    /\ job_title \in JobTitles
    /\ existing_dept \in ExistingDepts
    /\ department = NULL
    /\ keyword_tests = 0
    /\ OtherCommandsInit
    /\ client = "ok"
    /\ person = PersonIds
    /\ organization = OrgIds
    /\ role = <<>>
    /\ network_status = {}
    /\ organization_summary = {}
    /\ pc = "idle"
    /\ roles_data = <<>>
    /\ network_status_records = <<>>
    /\ summary_records = <<>>
    /\ i = 0
    /\ network_success = FALSE
    /\ org_success = FALSE
    /\ report = "none"
    /\ prev = [valid |-> FALSE, network_status |-> {}, organization_summary |-> {},
               role |-> role]

NextClassifier == ClassifyJobTitle \/ CategorizeRole

SpecClassifier == InitClassifier /\ [][NextClassifier]_vars

====
